---- MODULE Spec2Model ----
(***************************************************************************)
(* State-machine model of the chord machine: the music engine              *)
(* (music_theory.py, chord_engine.py), the UI state machine (ui_state.py), *)
(* the output coordinator (chord_machine_app.py) and the button            *)
(* edge-detector (plat_mcu/utils/button.py).                               *)
(***************************************************************************)
EXTENDS Integers, Sequences, FiniteSets, TLC

(***************************************************************************)
(* Bounds of the model (not program constants).                            *)
(***************************************************************************)
\* chord degrees passed to trigger_chord / release_chord are 0..MaxDegree
MaxDegree == 1
\* touch pads passed to trigger_note / release_note are PadBase..PadBase+MaxPad
MaxPad == 1
\* encoder deltas passed to update_encoder are -MaxDelta..MaxDelta
MaxDelta == 1
\* number of engine-changing operations in one behaviour
MaxChanges == 1
\* number of Button.update polls in one behaviour
MaxPolls == 6
\* largest time step between two Button.update polls
MaxDt == 2
MaxDebounce == 2
MaxLongPress == 3
\* number of update_encoder calls in one behaviour of the encoder specification
MaxTurns == 3
\* largest encoder delta of the encoder specification
MaxTurn == 7
\* subscriptions in force and emits on the subscriber table alone
MaxSubs == 3
MaxEmits == 3
MaxTicks == 3
\* largest octave step given to the chord engine alone
MaxOctaveStep == 12
\* largest degree, of either sign, given to get_chord and trigger_chord
MaxAnyDegree == 15
\* longest run of equal calls that the history of the engine counts
MaxRun == 12
\* largest step given to cycle_root_note on the engine alone
MaxCycleStep == 13
\* the encoder counts of the rotation specification stay within -MaxRotary..MaxRotary
MaxRotary == 2
\* latest time of an encoder button poll, and largest step between two polls
MaxEncTime == 6
MaxEncDt == 2
\* Hardware.ENCODER_DEBOUNCE_MS, scaled to the time steps of the model
EncDebounce == 2

(***************************************************************************)
(* constants.py                                                            *)
(***************************************************************************)
\* Python's None
None == -1

PLAY == "play"
ROOT_SELECT == "root_select"
SCALE_SELECT == "scale_select"
ModeALL == <<PLAY, ROOT_SELECT, SCALE_SELECT>>

NOTE_MIN == 0
NOTE_MAX == 127
DEFAULT_ROOT_NOTE == 60
DEFAULT_SCALE == "major"
VELOCITY_DEFAULT == 100
CHANNEL_MIN == 0

OctaveMIN == 2
OctaveMAX == 9

NUM_CHORD_BUTTONS == 7
TOTAL_BUTTONS == 8
SPECIAL_BUTTON_INDEX == 7
TOUCH_PAD_COUNT == 12

NOTES_PER_OCTAVE == 12
SCALE_DEGREES == 7

(***************************************************************************)
(* music_theory.py                                                         *)
(***************************************************************************)
\* list(SCALES.keys()): the scale names in definition order
ScaleNames ==
  << "major", "natural_minor", "harmonic_minor", "melodic_minor", "dorian",
     "phrygian", "lydian", "mixolydian", "locrian" >>

\* SCALES[name]; Python lists are 0-based, so SCALES(name)[i+1] is scale[i]
SCALES(name) ==
  CASE name = "major"          -> <<0, 2, 4, 5, 7, 9, 11>>
    [] name = "natural_minor"  -> <<0, 2, 3, 5, 7, 8, 10>>
    [] name = "harmonic_minor" -> <<0, 2, 3, 5, 7, 8, 11>>
    [] name = "melodic_minor"  -> <<0, 2, 3, 5, 7, 9, 11>>
    [] name = "dorian"         -> <<0, 2, 3, 5, 7, 9, 10>>
    [] name = "phrygian"       -> <<0, 1, 3, 5, 7, 8, 10>>
    [] name = "lydian"         -> <<0, 2, 4, 6, 7, 9, 11>>
    [] name = "mixolydian"     -> <<0, 2, 4, 5, 7, 9, 10>>
    [] name = "locrian"        -> <<0, 1, 3, 5, 6, 8, 10>>

NOTE_NAMES == <<"C", "C#", "D", "D#", "E", "F", "F#", "G", "G#", "A", "A#", "B">>

CHORD_TYPES(quality) ==
  CASE quality = "major"      -> <<0, 4, 7>>
    [] quality = "minor"      -> <<0, 3, 7>>
    [] quality = "diminished" -> <<0, 3, 6>>
    [] quality = "augmented"  -> <<0, 4, 8>>

ROMAN_NUMERALS == <<"I", "II", "III", "IV", "V", "VI", "VII">>

\* str.lower() on the roman numerals
Lower(numeral) ==
  CASE numeral = "I"   -> "i"
    [] numeral = "II"  -> "ii"
    [] numeral = "III" -> "iii"
    [] numeral = "IV"  -> "iv"
    [] numeral = "V"   -> "v"
    [] numeral = "VI"  -> "vi"
    [] numeral = "VII" -> "vii"

IsScaleName(name) == \E i \in 1..Len(ScaleNames) : ScaleNames[i] = name

\* list.index(name), 0-based
ScaleIndexOf(name) == CHOOSE i \in 0..(Len(ScaleNames) - 1) : ScaleNames[i + 1] = name

\* SCALES.get(scale_name, SCALES["major"])
get_scale_degrees(scale_name) ==
  IF IsScaleName(scale_name) THEN SCALES(scale_name) ELSE SCALES("major")

\* Python list indexing, 0-based: seq[i] is the position i, or len + i for a
\* negative i
list_index(len, i) == IF i < 0 THEN i + len ELSE i

\* IndexError outside -len .. len-1
list_index_raised(len, i) == IF -len <= i /\ i < len THEN "none" ELSE "IndexError"

\* the mutation: no interval is taken an octave up
wrap_interval_none(interval, root_interval) == interval

\* "Handle octave wrapping": an interval below the chord root is an octave up
wrap_interval(interval, root_interval) ==
  IF interval < root_interval THEN interval + 12 ELSE interval

\* the mutation: a minor third below a perfect fifth is not told from a major one
quality_of_sizes_no_minor(third_size, fifth_size) ==
  IF third_size = 4 /\ fifth_size = 7 THEN "major"
  ELSE IF third_size = 3 /\ fifth_size = 6 THEN "diminished"
  ELSE IF third_size = 4 /\ fifth_size = 8 THEN "augmented"
  ELSE "major"

\* "Determine quality based on interval sizes"
quality_of_sizes(third_size, fifth_size) ==
  IF third_size = 4 /\ fifth_size = 7 THEN "major"
  ELSE IF third_size = 3 /\ fifth_size = 7 THEN "minor"
  ELSE IF third_size = 3 /\ fifth_size = 6 THEN "diminished"
  ELSE IF third_size = 4 /\ fifth_size = 8 THEN "augmented"
  ELSE "major"

\* the quality of the chord on a degree of the interval list scale
quality_in(scale, degree) ==
  quality_of_sizes(
    wrap_interval(scale[((degree + 2) % 7) + 1], scale[list_index(Len(scale), degree) + 1])
      - scale[list_index(Len(scale), degree) + 1],
    wrap_interval(scale[((degree + 4) % 7) + 1], scale[list_index(Len(scale), degree) + 1])
      - scale[list_index(Len(scale), degree) + 1])

get_chord_quality_in_scale(scale_name, degree) ==
  quality_in(get_scale_degrees(scale_name), degree)

(***************************************************************************)
(* chord_engine.py: the engine is a record                                 *)
(*   [root_note_class, octave, scale_name, scale_index]                    *)
(***************************************************************************)
Max2(a, b) == IF a > b THEN a ELSE b
Min2(a, b) == IF a < b THEN a ELSE b

EngineInit(root_note, scale_name) ==
  [ root_note_class |-> root_note % NOTES_PER_OCTAVE,
    octave          |-> root_note \div NOTES_PER_OCTAVE,
    scale_name      |-> scale_name,
    scale_index     |-> IF IsScaleName(scale_name) THEN ScaleIndexOf(scale_name) ELSE 0 ]

root_note(e) == e.octave * NOTES_PER_OCTAVE + e.root_note_class

\* scale_name setter
set_scale_name(e, name) ==
  IF IsScaleName(name)
  THEN [e EXCEPT !.scale_name = name, !.scale_index = ScaleIndexOf(name)]
  ELSE e

\* scale_index setter
set_scale_index(e, index) ==
  [e EXCEPT !.scale_name = ScaleNames[(index % Len(ScaleNames)) + 1],
            !.scale_index = index % Len(ScaleNames)]

\* suffixes.get(quality, "")
quality_suffix(quality) ==
  CASE quality = "major" -> ""
    [] quality = "minor" -> "m"
    [] quality = "diminished" -> "dim"
    [] quality = "augmented" -> "aug"
    [] OTHER -> ""

\* "Build roman numeral (uppercase for major, lowercase for minor/dim)"
roman_numeral(degree, quality) ==
  IF quality = "diminished" THEN Lower(ROMAN_NUMERALS[degree + 1]) \o "°"
  ELSE IF quality = "minor" THEN Lower(ROMAN_NUMERALS[degree + 1])
  ELSE ROMAN_NUMERALS[degree + 1]

\* the chord of a quality built on chord_root
build_chord(chord_root, quality, degree) ==
  [ notes   |-> [i \in 1..Len(CHORD_TYPES(quality)) |-> chord_root + CHORD_TYPES(quality)[i]],
    name    |-> NOTE_NAMES[(chord_root % NOTES_PER_OCTAVE) + 1] \o quality_suffix(quality),
    numeral |-> roman_numeral(degree, quality) ]

\* get_chord for a degree already in 0..6
get_chord_at(e, degree) ==
  build_chord(root_note(e) + SCALES(e.scale_name)[degree + 1],
              get_chord_quality_in_scale(e.scale_name, degree), degree)

get_chord(e, degree) ==
  get_chord_at(e, IF ~(0 <= degree /\ degree <= 6) THEN degree % SCALE_DEGREES ELSE degree)

\* the mutation: no octave is added for the degrees past the first seven
get_scale_note_one_octave(e, degree) ==
  root_note(e) + SCALES(e.scale_name)[(degree % SCALE_DEGREES) + 1]

get_scale_note(e, degree) ==
  root_note(e) + SCALES(e.scale_name)[(degree % SCALE_DEGREES) + 1]
    + ((degree \div SCALE_DEGREES) * NOTES_PER_OCTAVE)

next_scale(e) == set_scale_index(e, (e.scale_index + 1) % Len(ScaleNames))

\* the mutation: the scale before the first one is the first one
prev_scale_no_wrap(e) == set_scale_index(e, Max2(e.scale_index - 1, 0))

prev_scale(e) == set_scale_index(e, (e.scale_index - 1) % Len(ScaleNames))

set_root_note_class(e, note_class) ==
  [e EXCEPT !.root_note_class = note_class % NOTES_PER_OCTAVE]

\* the mutation: the remainder keeps the sign of class + delta
cycle_root_note_truncated(e, delta) ==
  [e EXCEPT !.root_note_class =
     IF e.root_note_class + delta >= 0
     THEN (e.root_note_class + delta) % NOTES_PER_OCTAVE
     ELSE 0 - ((0 - (e.root_note_class + delta)) % NOTES_PER_OCTAVE)]

cycle_root_note(e, delta) ==
  [e EXCEPT !.root_note_class = (e.root_note_class + delta) % NOTES_PER_OCTAVE]

set_octave(e, octave) ==
  [e EXCEPT !.octave = Max2(OctaveMIN, Min2(OctaveMAX, octave))]

\* the mutation: the octave is not clamped
change_octave_unclamped(e, delta) == [e EXCEPT !.octave = e.octave + delta]

change_octave(e, delta) ==
  [e EXCEPT !.octave = Max2(OctaveMIN, Min2(OctaveMAX, e.octave + delta))]

\* what a call on the engine gave: the exception it raised ("none" when it
\* returned) and the chord or the interval list it returned
NoChord == [notes |-> <<>>, name |-> "", numeral |-> ""]
NoReturn == [raised |-> "none", chord |-> NoChord, list |-> <<>>, quality |-> "",
             note |-> None]

\* no call yet
NoRun == [op |-> "init", arg |-> None, n |-> 0, start |-> None, before |-> None,
          prevOp |-> "init", prevArg |-> None, before2 |-> None]

(***************************************************************************)
(* chord_engine.py, music_theory.py: calls that can raise                  *)
(***************************************************************************)
\* SCALES[self._scale_name]: KeyError on a name that is no key
scales_lookup_raised(e) == IF IsScaleName(e.scale_name) THEN "none" ELSE "KeyError"

\* what get_chord(degree) gives
get_chord_call(e, degree) ==
  IF scales_lookup_raised(e) # "none"
  THEN [NoReturn EXCEPT !.raised = scales_lookup_raised(e)]
  ELSE [NoReturn EXCEPT !.chord = get_chord(e, degree)]

\* what get_scale_note(degree) gives
get_scale_note_call(e, degree) ==
  IF scales_lookup_raised(e) # "none"
  THEN [NoReturn EXCEPT !.raised = scales_lookup_raised(e)]
  ELSE [NoReturn EXCEPT !.note = get_scale_note(e, degree)]

\* what the lookups of music_theory.py give
get_scale_degrees_call(scale_name) ==
  [NoReturn EXCEPT !.list = get_scale_degrees(scale_name)]

get_chord_quality_call(scale_name, degree) ==
  [NoReturn EXCEPT !.quality = get_chord_quality_in_scale(scale_name, degree)]

(***************************************************************************)
(* Python dicts, kept as sequences of [k, v] entries in insertion order    *)
(***************************************************************************)
DictHas(d, k) == \E i \in 1..Len(d) : d[i].k = k

DictGet(d, k) == d[CHOOSE i \in 1..Len(d) : d[i].k = k].v

\* d[k] = v
DictSet(d, k, v) ==
  IF DictHas(d, k)
  THEN [i \in 1..Len(d) |-> IF d[i].k = k THEN [k |-> k, v |-> v] ELSE d[i]]
  ELSE Append(d, [k |-> k, v |-> v])

\* del d[k]
DictDel(d, k) == SelectSeq(d, LAMBDA en : en.k # k)

DictKeys(d) == {d[i].k : i \in 1..Len(d)}

(***************************************************************************)
(* The program state handled by the operations is a record                 *)
(*   e      the ChordEngine                                                *)
(*   u      the UIState fields                                             *)
(*   a      the ChordMachineApp fields                                     *)
(*   calls  the calls made on the hardware port, in order                  *)
(*   ev     the events emitted, in order                                   *)
(***************************************************************************)

(***************************************************************************)
(* hal_protocol.py: MidiOutputHAL, the MIDI output of the hardware port.   *)
(* calls records the send_note_on / send_note_off calls the coordinator    *)
(* makes on it.                                                            *)
(***************************************************************************)
send_note_on(calls, channel, note, vel) ==
  Append(calls, [op |-> "note_on", channel |-> channel, note |-> note, velocity |-> vel])

send_note_off(calls, channel, note) ==
  Append(calls, [op |-> "note_off", channel |-> channel, note |-> note, velocity |-> 0])

\* hal_protocol.py: for note in notes: send_note_on(channel, note, velocity)
RECURSIVE send_chord_on(_, _, _, _)
send_chord_on(calls, channel, notes, vel) ==
  IF notes = <<>> THEN calls
  ELSE send_chord_on(send_note_on(calls, channel, Head(notes), vel),
                     channel, Tail(notes), vel)

RECURSIVE send_chord_off(_, _, _)
send_chord_off(calls, channel, notes) ==
  IF notes = <<>> THEN calls
  ELSE send_chord_off(send_note_off(calls, channel, Head(notes)),
                      channel, Tail(notes))

(***************************************************************************)
(* music_theory.py: semitone sets for the touch-strip LEDs                 *)
(***************************************************************************)
\* set(seq)
SetOf(q) == {q[i] : i \in 1..Len(q)}

get_scale_semitones(scale_name) == SetOf(get_scale_degrees(scale_name))

\* the semitones of the chord type on chord_root_semitone, mod 12
chord_semitones_of(chord_root_semitone, chord_type) ==
  {(chord_root_semitone + chord_type[i]) % 12 : i \in 1..Len(chord_type)}

get_chord_semitones(scale_name, chord_degree) ==
  IF chord_degree = None THEN {}
  ELSE chord_semitones_of(get_scale_degrees(scale_name)[list_index(SCALE_DEGREES, chord_degree) + 1],
                          CHORD_TYPES(get_chord_quality_in_scale(scale_name, chord_degree)))

(***************************************************************************)
(* ui_state.py: display data                                               *)
(***************************************************************************)
\* chord_info = {"name": name, "numeral": numeral}
chord_info(c) == <<c.name, c.numeral>>

get_display_data(s) ==
  [ active_chord |-> IF s.u.active_chord_degree # None
                     THEN chord_info(get_chord(s.e, s.u.active_chord_degree))
                     ELSE <<>>,
    mode         |-> s.u.mode,
    root_note    |-> root_note(s.e),
    octave       |-> s.e.octave,
    scale_name   |-> s.e.scale_name ]

clear_display_dirty(s) == [s EXCEPT !.u.display_dirty = FALSE]

(***************************************************************************)
(* chord_machine_app.py: display and LED helpers                           *)
(***************************************************************************)
\* the display calls of _update_display for the display data dd
show_display(s, dd) ==
  [s EXCEPT !.calls = @ \o
     << [op |-> "show_scale", scale_name |-> dd.scale_name, octave |-> dd.octave],
        [op |-> "show_mode", mode |-> dd.mode] >> \o
     (IF dd.active_chord # <<>>
      THEN << [op |-> "show_chord", name |-> dd.active_chord[1],
               numeral |-> dd.active_chord[2]] >>
      ELSE <<>>)]

update_display(s) == clear_display_dirty(show_display(s, get_display_data(s)))

update_touch_strip_leds(s) ==
  [s EXCEPT !.calls = Append(@,
     [op |-> "update_scale_and_chord",
      scale_semitones |-> get_scale_semitones(s.e.scale_name),
      chord_semitones |-> get_chord_semitones(s.e.scale_name, s.a.current_chord_degree)])]

\* all recorded chord notes, in dict order
RECURSIVE AllDegreeNotes(_)
AllDegreeNotes(d) == IF d = <<>> THEN <<>> ELSE Head(d).v \o AllDegreeNotes(Tail(d))

\* list(dict.values()) of the pad records
PadNotes(d) == [i \in 1..Len(d) |-> d[i].v]

(***************************************************************************)
(* chord_machine_app.py: the event handlers of the output coordinator      *)
(* (_setup_event_handlers). midi_channel and velocity are the values       *)
(* main() passes.                                                          *)
(***************************************************************************)
midi_channel == CHANNEL_MIN
velocity == VELOCITY_DEFAULT

\* the mutation: the notes sent are not stored for the degree
chord_triggered_record_unstored(s, data) ==
  [s EXCEPT !.calls = send_chord_on(@, midi_channel, data.notes, velocity),
            !.a.current_chord_degree = data.degree]

\* "Send MIDI", "Store notes for this specific degree", "Track current chord degree"
chord_triggered_record(s, data) ==
  [s EXCEPT !.calls = send_chord_on(@, midi_channel, data.notes, velocity),
            !.a.active_notes_by_degree = DictSet(@, data.degree, data.notes),
            !.a.current_chord_degree = data.degree]

\* "Update LEDs", "Update display"
chord_triggered_show(s, data) ==
  [s EXCEPT !.calls = @ \o
     << [op |-> "set_button_led", index |-> data.degree, color |-> "CHORD_ACTIVE"],
        [op |-> "show_chord_visualization", notes |-> data.notes,
         root_note |-> root_note(s.e)],
        [op |-> "show_chord", name |-> data.name, numeral |-> data.numeral] >>]

on_chord_triggered(s, data) ==
  chord_triggered_show(update_touch_strip_leds(chord_triggered_record(s, data)), data)

\* "Send MIDI note offs for this specific degree's notes"
chord_released_offs(s, degree) ==
  IF DictHas(s.a.active_notes_by_degree, degree)
  THEN [s EXCEPT !.calls = send_chord_off(@, midi_channel,
                             DictGet(s.a.active_notes_by_degree, degree)),
                 !.a.active_notes_by_degree = DictDel(@, degree)]
  ELSE s

\* the same, with the chord recomputed from the current root and scale instead
\* of the recorded notes
chord_released_offs_recompute(s, degree) ==
  IF DictHas(s.a.active_notes_by_degree, degree)
  THEN [s EXCEPT !.calls = send_chord_off(@, midi_channel, get_chord(s.e, degree).notes),
                 !.a.active_notes_by_degree = DictDel(@, degree)]
  ELSE s

\* the mutation: the highlight is cleared even while other chords are recorded
chord_released_degree_clear(s, degree) ==
  IF s.a.current_chord_degree = degree
  THEN update_touch_strip_leds([s EXCEPT !.a.current_chord_degree = None])
  ELSE s

\* "Clear chord degree if this was the active one"
chord_released_degree(s, degree) ==
  IF s.a.current_chord_degree = degree
  THEN update_touch_strip_leds(
         [s EXCEPT !.a.current_chord_degree =
            IF s.a.active_notes_by_degree # <<>>
            THEN s.a.active_notes_by_degree[1].k ELSE None])
  ELSE s

\* "Update LEDs", "re-draw remaining active chord notes if any"
chord_released_show(s, degree) ==
  [s EXCEPT !.calls = @ \o
     << [op |-> "set_button_led", index |-> degree, color |-> "OFF"],
        [op |-> "led_clear"] >> \o
     (IF s.a.active_notes_by_degree # <<>>
      THEN << [op |-> "show_chord_visualization",
               notes |-> AllDegreeNotes(s.a.active_notes_by_degree),
               root_note |-> root_note(s.e)] >>
      ELSE <<>>)]

\* a coordinator that sends the note-offs of the recomputed chord
on_chord_released_recompute(s, data) ==
  chord_released_show(
    chord_released_degree(chord_released_offs_recompute(s, data.degree), data.degree),
    data.degree)

on_chord_released(s, data) ==
  chord_released_show(
    chord_released_degree(chord_released_offs(s, data.degree), data.degree),
    data.degree)

on_scale_changed(s, data) == update_touch_strip_leds(update_display(s))

\* mode_colors.get(data["mode"], Color.MODE_PLAY)
mode_color(mode) ==
  CASE mode = PLAY -> "MODE_PLAY"
    [] mode = ROOT_SELECT -> "MODE_ROOT_SELECT"
    [] mode = SCALE_SELECT -> "MODE_SCALE_SELECT"
    [] OTHER -> "MODE_PLAY"

\* led_matrix.set_button_led(Hardware.SPECIAL_BUTTON_INDEX, color)
set_special_led(s, color) ==
  [s EXCEPT !.calls = Append(@, [op |-> "set_button_led", index |-> SPECIAL_BUTTON_INDEX,
                                 color |-> color])]

on_mode_changed(s, data) == set_special_led(update_display(s), mode_color(data.mode))

on_root_changed(s, data) == update_touch_strip_leds(update_display(s))

on_chord_hold_changed(s, data) ==
  set_special_led(update_display(s), IF data.chord_hold THEN "YELLOW" ELSE "OFF")

on_note_triggered(s, data) ==
  [s EXCEPT !.calls = Append(send_note_on(@, midi_channel, data.note, velocity),
                             [op |-> "show_chord_visualization", notes |-> <<data.note>>,
                              root_note |-> root_note(s.e)]),
            !.a.active_notes_by_pad = DictSet(@, data.pad, data.note)]

\* "Send MIDI note off for this pad's note"
note_released_off(s, pad) ==
  IF DictHas(s.a.active_notes_by_pad, pad)
  THEN [s EXCEPT !.calls = send_note_off(@, midi_channel,
                             DictGet(s.a.active_notes_by_pad, pad)),
                 !.a.active_notes_by_pad = DictDel(@, pad)]
  ELSE s

\* the same, with the pad's note recomputed from the current root and scale
\* instead of the recorded note
note_released_off_recompute(s, pad) ==
  IF DictHas(s.a.active_notes_by_pad, pad)
  THEN [s EXCEPT !.calls = send_note_off(@, midi_channel, get_scale_note(s.e, pad)),
                 !.a.active_notes_by_pad = DictDel(@, pad)]
  ELSE s

\* "Clear visualization if no more active notes", else "Redraw remaining
\* active notes"
note_released_show(s) ==
  [s EXCEPT !.calls = Append(@, [op |-> "led_clear"]) \o
     (IF PadNotes(s.a.active_notes_by_pad) \o AllDegreeNotes(s.a.active_notes_by_degree) # <<>>
      THEN << [op |-> "show_chord_visualization",
               notes |-> PadNotes(s.a.active_notes_by_pad)
                           \o AllDegreeNotes(s.a.active_notes_by_degree),
               root_note |-> root_note(s.e)] >>
      ELSE <<>>)]

\* a coordinator that sends the note-off of the recomputed note
on_note_released_recompute(s, data) ==
  note_released_show(note_released_off_recompute(s, data.pad))

on_note_released(s, data) == note_released_show(note_released_off(s, data.pad))

(***************************************************************************)
(* ui_state.py: emit calls the subscribers of the event type               *)
(* synchronously; the subscribers are the coordinator's handlers, one per  *)
(* event type (chord_machine_app.py, "Register handlers")                  *)
(***************************************************************************)
\* for callback in self._subscribers[event_type]: callback(data)
call_subscribers(s, event_type, data) ==
  CASE event_type = "chord_triggered"    -> on_chord_triggered(s, data)
    [] event_type = "chord_released"     -> on_chord_released(s, data)
    [] event_type = "scale_changed"      -> on_scale_changed(s, data)
    [] event_type = "mode_changed"       -> on_mode_changed(s, data)
    [] event_type = "root_changed"       -> on_root_changed(s, data)
    [] event_type = "chord_hold_changed" -> on_chord_hold_changed(s, data)
    [] event_type = "note_triggered"     -> on_note_triggered(s, data)
    [] event_type = "note_released"      -> on_note_released(s, data)
    [] OTHER                             -> s

emit(s, event_type, data) ==
  call_subscribers([s EXCEPT !.ev = Append(@, [type |-> event_type, data |-> data]),
                             !.dirty = Append(@, s.u.display_dirty)],
                   event_type, data)

(***************************************************************************)
(* ui_state.py: the UIState operations                                     *)
(***************************************************************************)
\* emit(Event.SCALE_CHANGED, {"index": index, "name": self.chord_engine.scale_name})
emit_scale_changed(s, index) ==
  emit(s, "scale_changed", [index |-> index, name |-> s.e.scale_name])

set_scale(s, index) ==
  emit_scale_changed([s EXCEPT !.u.current_scale_index = index,
                               !.e = set_scale_index(@, index),
                               !.u.display_dirty = TRUE], index)

\* emit(Event.CHORD_TRIGGERED, {"degree", "notes", "name", "numeral"})
emit_chord_triggered(s, degree, chord) ==
  emit(s, "chord_triggered",
       [degree |-> degree, notes |-> chord.notes, name |-> chord.name,
        numeral |-> chord.numeral])

\* the mutation: the active chord degree is not recorded
trigger_chord_keep_active(s, degree) ==
  emit_chord_triggered([s EXCEPT !.u.led_states[degree + 1] = TRUE,
                                 !.u.display_dirty = TRUE],
                       degree, get_chord(s.e, degree))

trigger_chord(s, degree) ==
  emit_chord_triggered([s EXCEPT !.u.active_chord_degree = degree,
                                 !.u.led_states[degree + 1] = TRUE,
                                 !.u.display_dirty = TRUE],
                       degree, get_chord(s.e, degree))

\* trigger_chord up to the emit, for any integer degree the LED list takes
trigger_chord_ui(s, degree) ==
  [s EXCEPT !.u.active_chord_degree = degree,
            !.u.led_states[list_index(Len(s.u.led_states), degree) + 1] = TRUE,
            !.u.display_dirty = TRUE]

\* the CHORD_TRIGGERED data of a degree
chord_triggered_data(s, degree) ==
  [degree |-> degree, notes |-> get_chord(s.e, degree).notes,
   name |-> get_chord(s.e, degree).name, numeral |-> get_chord(s.e, degree).numeral]

\* the emit of trigger_chord up to the point where the subscriber raises:
\* on_chord_triggered has sent the notes and recorded the degree, and
\* _update_touch_strip_leds fails in get_chord_semitones on scale[degree]
emit_chord_triggered_raised(s, degree) ==
  chord_triggered_record(
    [s EXCEPT !.ev = Append(@, [type |-> "chord_triggered",
                                data |-> chord_triggered_data(s, degree)]),
              !.dirty = Append(@, s.u.display_dirty)],
    chord_triggered_data(s, degree))

\* what trigger_chord(degree) does for any integer degree: the exception it
\* ends with, if any, and the state it leaves
trigger_chord_call(s, degree) ==
  IF list_index_raised(Len(s.u.led_states), degree) # "none"
  THEN [raised |-> list_index_raised(Len(s.u.led_states), degree),
        s |-> [s EXCEPT !.u.active_chord_degree = degree]]
  ELSE IF list_index_raised(SCALE_DEGREES, degree) # "none"
  THEN [raised |-> list_index_raised(SCALE_DEGREES, degree),
        s |-> emit_chord_triggered_raised(trigger_chord_ui(s, degree), degree)]
  ELSE [raised |-> "none",
        s |-> emit_chord_triggered(trigger_chord_ui(s, degree), degree, get_chord(s.e, degree))]

release_chord(s, degree) ==
  emit([s EXCEPT !.u.active_chord_degree = IF @ = degree THEN None ELSE @,
                 !.u.led_states[degree + 1] = FALSE],
       "chord_released", [degree |-> degree])

\* emit(Event.ROOT_CHANGED, {"root_note", "root_note_class", "octave"})
emit_root_changed(s) ==
  emit(s, "root_changed",
       [root_note |-> root_note(s.e), root_note_class |-> s.e.root_note_class,
        octave |-> s.e.octave])

\* self.set_scale(self.chord_engine.scale_index)
set_scale_from_engine(s) == set_scale(s, s.e.scale_index)

\* "Behavior depends on current mode"
encoder_by_mode(s, delta) ==
  IF s.u.mode = PLAY
  THEN emit_root_changed([s EXCEPT !.e = change_octave(@, delta),
                                   !.u.display_dirty = TRUE])
  ELSE IF s.u.mode = ROOT_SELECT
  THEN emit_root_changed([s EXCEPT !.e = cycle_root_note(@, delta),
                                   !.u.display_dirty = TRUE])
  ELSE IF s.u.mode = SCALE_SELECT
  THEN set_scale_from_engine(
         [s EXCEPT !.e = IF delta > 0 THEN next_scale(@) ELSE prev_scale(@)])
  ELSE s

\* the mutation: the event carries the delta as the value
update_encoder_value_is_delta(s, delta) ==
  encoder_by_mode(
    emit([s EXCEPT !.u.encoder_value = @ + delta], "encoder_changed",
         [value |-> delta, delta |-> delta]),
    delta)

update_encoder(s, delta) ==
  encoder_by_mode(
    emit([s EXCEPT !.u.encoder_value = @ + delta], "encoder_changed",
         [value |-> s.u.encoder_value + delta, delta |-> delta]),
    delta)

\* Mode.ALL.index(mode), 0-based
ModeIndexOf(mode) == CHOOSE i \in 0..(Len(ModeALL) - 1) : ModeALL[i + 1] = mode

\* emit(Event.MODE_CHANGED, {"mode": self.mode})
emit_mode_changed(s) == emit(s, "mode_changed", [mode |-> s.u.mode])

\* the mutation: the mode after the last one is the last one
toggle_mode_no_wrap(s) ==
  emit_mode_changed(
    [s EXCEPT !.u.mode = ModeALL[Min2(ModeIndexOf(s.u.mode) + 1, Len(ModeALL) - 1) + 1],
              !.u.display_dirty = TRUE])

toggle_mode(s) ==
  emit_mode_changed(
    [s EXCEPT !.u.mode = ModeALL[((ModeIndexOf(s.u.mode) + 1) % Len(ModeALL)) + 1],
              !.u.display_dirty = TRUE])

set_mode(s, mode) ==
  IF \E i \in 1..Len(ModeALL) : ModeALL[i] = mode
  THEN emit_mode_changed([s EXCEPT !.u.mode = mode, !.u.display_dirty = TRUE])
  ELSE s

(***************************************************************************)
(* UIState operations whose code is not part of ui_state.py as given: only *)
(* their callers (chord_machine_app.py) and tests (test_chord_machine.py)  *)
(* are. They follow section 4.3 of the specification.                      *)
(***************************************************************************)
\* turning hold off while a degree is held emits ChordReleased{held_degree}
\* and clears it
release_held_chord(s) ==
  IF ~s.u.chord_hold /\ s.u.held_chord_degree # None
  THEN [emit(s, "chord_released", [degree |-> s.u.held_chord_degree])
          EXCEPT !.u.held_chord_degree = None]
  ELSE s

\* emits ChordHoldChanged{enabled}
emit_chord_hold_changed(s) ==
  emit([s EXCEPT !.u.display_dirty = TRUE], "chord_hold_changed",
       [chord_hold |-> s.u.chord_hold])

toggle_chord_hold(s) ==
  emit_chord_hold_changed(release_held_chord([s EXCEPT !.u.chord_hold = ~@]))

\* the mutation: the reset leaves the octave alone
special_button_reset_keep_octave(s) ==
  set_scale_from_engine(
    [s EXCEPT !.e = set_root_note_class(set_scale_name(@, DEFAULT_SCALE),
                                        DEFAULT_ROOT_NOTE % NOTES_PER_OCTAVE)])

\* update(): "Reset to default scale" on a long press of button 8 (index 7)
special_button_reset(s) ==
  set_scale_from_engine(
    [s EXCEPT !.e = set_root_note_class(
                      set_octave(set_scale_name(@, DEFAULT_SCALE),
                                 DEFAULT_ROOT_NOTE \div NOTES_PER_OCTAVE),
                      DEFAULT_ROOT_NOTE % NOTES_PER_OCTAVE)])

\* update(): the branch of the button loop for the special button, with the
\* answers of was_long_pressed(7) and was_pressed(7)
special_button(s, long, pressed) ==
  LET s1 == IF long THEN special_button_reset(s) ELSE s
  IN  IF pressed THEN toggle_chord_hold(s1) ELSE s1

\* emits NoteTriggered{pad, note, name}
emit_note_triggered(s, pad, note) ==
  emit([s EXCEPT !.u.active_notes = DictSet(@, pad, note)], "note_triggered",
       [pad |-> pad, note |-> note, name |-> NOTE_NAMES[(note % 12) + 1]])

trigger_note(s, pad) == emit_note_triggered(s, pad, get_scale_note(s.e, pad))

\* emits NoteReleased{pad, note, name}
emit_note_released(s, pad, note) ==
  emit([s EXCEPT !.u.active_notes = DictDel(@, pad)], "note_released",
       [pad |-> pad, note |-> note, name |-> NOTE_NAMES[(note % 12) + 1]])

release_note(s, pad) ==
  IF DictHas(s.u.active_notes, pad)
  THEN emit_note_released(s, pad, DictGet(s.u.active_notes, pad))
  ELSE s

(***************************************************************************)
(* chord_machine_app.py: cleanup                                           *)
(***************************************************************************)
RECURSIVE cleanup_chords(_, _)
cleanup_chords(calls, d) ==
  IF d = <<>> THEN calls
  ELSE cleanup_chords(send_chord_off(calls, midi_channel, Head(d).v), Tail(d))

RECURSIVE cleanup_pads(_, _)
cleanup_pads(calls, d) ==
  IF d = <<>> THEN calls
  ELSE cleanup_pads(send_note_off(calls, midi_channel, Head(d).v), Tail(d))

\* a cleanup that turns off the chord notes and forgets the touch-pad notes
cleanup_chords_only(s) ==
  [s EXCEPT !.a.active_notes_by_degree = <<>>,
            !.a.active_notes_by_pad = <<>>,
            !.calls = cleanup_chords(@, s.a.active_notes_by_degree)
                        \o << [op |-> "led_clear"], [op |-> "led_update"],
                              [op |-> "display_clear"], [op |-> "display_update"] >>]

cleanup(s) ==
  [s EXCEPT !.a.active_notes_by_degree = <<>>,
            !.a.active_notes_by_pad = <<>>,
            !.calls = cleanup_pads(cleanup_chords(@, s.a.active_notes_by_degree),
                                   s.a.active_notes_by_pad)
                        \o << [op |-> "led_clear"], [op |-> "led_update"],
                              [op |-> "display_clear"], [op |-> "display_update"] >>]

(***************************************************************************)
(* plat_mcu/utils/button.py: Button.  Levels are 0 (pressed, pull-up) and  *)
(* 1; times are milliseconds of time.ticks_ms(), far from its wrap-around, *)
(* so that time.ticks_diff is the difference.                              *)
(***************************************************************************)
ButtonInit(debounce_ms, long_press_ms, raw, t) ==
  [ debounce_ms      |-> debounce_ms,
    long_press_ms    |-> long_press_ms,
    last_raw         |-> raw,
    stable           |-> raw,
    last_change      |-> t,
    pressed_time     |-> None,
    pressed_event    |-> FALSE,
    released_event   |-> FALSE,
    long_press_event |-> FALSE ]

ticks_diff(t1, t0) == t1 - t0

is_pressed(b) == b.stable = 0

\* the mutation: the debounce window is not restarted when the raw level changes
debounce_sample_keep_window(b, t, raw) ==
  IF raw # b.last_raw THEN [b EXCEPT !.last_raw = raw] ELSE b

\* if raw != self._last_raw: restart the debounce window
debounce_sample(b, t, raw) ==
  IF raw # b.last_raw THEN [b EXCEPT !.last_change = t, !.last_raw = raw] ELSE b

\* the condition under which update() commits a change of the stable level
debounce_commits(b, t, raw) ==
  ticks_diff(t, b.last_change) >= b.debounce_ms /\ raw # b.stable

\* the mutation: every commit raises the pressed event
debounce_commit_always_pressed(b, t, raw) ==
  IF debounce_commits(b, t, raw)
  THEN [b EXCEPT !.stable = raw, !.pressed_event = TRUE,
                 !.pressed_time = IF raw = 0 THEN t ELSE None]
  ELSE b

debounce_commit(b, t, raw) ==
  IF debounce_commits(b, t, raw)
  THEN IF raw = 0
       THEN [b EXCEPT !.stable = raw, !.pressed_event = TRUE, !.pressed_time = t]
       ELSE [b EXCEPT !.stable = raw, !.released_event = TRUE, !.pressed_time = None]
  ELSE b

\* the condition under which update() raises the long-press event
long_press_fires(b, t) ==
  /\ is_pressed(b)
  /\ b.pressed_time # None
  /\ ticks_diff(t, b.pressed_time) >= b.long_press_ms

\* the mutation: the long-press timer stays armed after it fired
long_press_detect_rearmed(b, t) ==
  IF long_press_fires(b, t) THEN [b EXCEPT !.long_press_event = TRUE] ELSE b

long_press_detect(b, t) ==
  IF long_press_fires(b, t)
  THEN [b EXCEPT !.long_press_event = TRUE, !.pressed_time = None]
  ELSE b

\* Button.update() at time t with the pin reading raw
button_update(b, t, raw) ==
  long_press_detect(debounce_commit(debounce_sample(b, t, raw), t, raw), t)

\* the history entry of that update(): whether it committed a change of the
\* stable level, and whether it raised the long-press event
button_update_log(b, t, raw) ==
  [ t      |-> t,
    raw    |-> raw,
    commit |-> debounce_commits(debounce_sample(b, t, raw), t, raw),
    long   |-> long_press_fires(debounce_commit(debounce_sample(b, t, raw), t, raw), t) ]

was_pressed(b) == [b EXCEPT !.pressed_event = FALSE]

\* the mutation: the query does not clear the event
was_released_sticky(b) == b

was_released(b) == [b EXCEPT !.released_event = FALSE]

was_long_pressed(b) == [b EXCEPT !.long_press_event = FALSE]

(***************************************************************************)
(* plat_mcu/hal_mcu.py: SoftwareMidiTx, MCUMidiOutputHAL and               *)
(* MCUTripleMidiOutputHAL.  A pulse segment is a duration in ticks and a   *)
(* level; a message is a sequence of bytes.                                *)
(***************************************************************************)
bit_ticks == 32
NOTE_ON_STATUS == 144
NOTE_OFF_STATUS == 128
CONTROL_CHANGE_STATUS == 176

\* (byte >> i) & 1
bit_of(byte, i) == (byte \div (2 ^ i)) % 2

\* the 8 data segments, least significant bit first
data_pulses(byte) ==
  [i \in 1..8 |-> [duration |-> bit_ticks, level |-> (bit_of(byte, i - 1) = 1)]]

\* the mutation: the data bits are sent most significant bit first
byte_to_pulses_msb_first(byte) ==
  << [duration |-> bit_ticks, level |-> FALSE] >>
    \o [i \in 1..8 |-> [duration |-> bit_ticks, level |-> (bit_of(byte, 8 - i) = 1)]]
    \o << [duration |-> bit_ticks, level |-> TRUE] >>

byte_to_pulses(byte) ==
  << [duration |-> bit_ticks, level |-> FALSE] >>
    \o data_pulses(byte)
    \o << [duration |-> bit_ticks, level |-> TRUE] >>

\* "Build complete pulse sequence for all bytes"
RECURSIVE all_pulses(_)
all_pulses(data) ==
  IF data = <<>> THEN <<>>
  ELSE byte_to_pulses(Head(data)) \o all_pulses(Tail(data))

\* the peripheral: the segments still to be sent, the sequence submitted last,
\* and whether a sequence was ever submitted while another was in flight
RmtInit == [inflight |-> <<>>, submitted |-> <<>>, overlap |-> FALSE]

\* the mutation: write does not wait for the peripheral
wait_done_skip(r) == TRUE

\* the condition under which self._rmt.wait_done() returns
wait_done(r) == r.inflight = <<>>

\* self._rmt.write_pulses(all_durations, all_levels)
write_pulses(r, pulses) ==
  [r EXCEPT !.inflight = @ \o pulses,
            !.submitted = pulses,
            !.overlap = @ \/ (r.inflight # <<>>)]

\* SoftwareMidiTx.write, once wait_done() has returned
SoftwareMidiTx_write(r, data) ==
  IF data = <<>> THEN r ELSE write_pulses(r, all_pulses(data))

\* the condition under which SoftwareMidiTx.write(data) returns
write_returns(r, data) == data = <<>> \/ wait_done(r)

\* status = 0x90 | (channel & 0x0F), and the same for 0x80 and 0xB0
status_byte(code, channel) == code + (channel % 16)

\* the mutation: the data bytes are not masked to 7 bits
message_bytes_unmasked(code, channel, d1, d2) ==
  << status_byte(code, channel), d1 % 256, d2 % 256 >>

\* bytes([status, d1 & 0x7F, d2 & 0x7F])
message_bytes(code, channel, d1, d2) ==
  << status_byte(code, channel), d1 % 128, d2 % 128 >>

\* the outputs: midi1 and midi2 of the triple output, its software transmitter
\* midi3, and midi of the single output
MidiInit == [m1 |-> <<>>, m2 |-> <<>>, m3 |-> <<>>, m |-> <<>>, rmt |-> RmtInit]

\* the outputs when a call starts: the messages of the call before are dropped
MidiCall(mo) == [mo EXCEPT !.m1 = <<>>, !.m2 = <<>>, !.m3 = <<>>, !.m = <<>>]

\* SoftwareMidiTx.send_note_on / send_note_off / send_control_change
SoftwareMidiTx_send(mo, code, channel, d1, d2) ==
  [mo EXCEPT !.m3 = Append(@, message_bytes(code, channel, d1, d2)),
             !.rmt = SoftwareMidiTx_write(@, message_bytes(code, channel, d1, d2))]

\* lib.midi Midi.send_note_on / send_note_off / send_control_change of a
\* hardware UART: the message on the wire
Midi_send(msgs, code, channel, d1, d2) ==
  Append(msgs, << code + channel, d1, d2 >>)

\* the mutation: no range check of the note
note_in_range_any(note) == TRUE

\* not (note < MidiConst.NOTE_MIN or note > MidiConst.NOTE_MAX)
note_in_range(note) == ~(note < NOTE_MIN \/ note > NOTE_MAX)

MCU_send_note_on(mo, channel, note, vel) ==
  IF ~note_in_range(note) THEN mo
  ELSE [mo EXCEPT !.m = Midi_send(@, NOTE_ON_STATUS, channel, note, vel)]

MCU_send_note_off(mo, channel, note) ==
  IF ~note_in_range(note) THEN mo
  ELSE [mo EXCEPT !.m = Midi_send(@, NOTE_OFF_STATUS, channel, note, 0)]

\* midi1, midi2 and midi3 get the message, in this order
triple_send(mo, code, channel, d1, d2) ==
  SoftwareMidiTx_send(
    [mo EXCEPT !.m1 = Midi_send(@, code, channel, d1, d2),
               !.m2 = Midi_send(@, code, channel, d1, d2)],
    code, channel, d1, d2)

Triple_send_note_on(mo, channel, note, vel) ==
  IF ~note_in_range(note) THEN mo
  ELSE triple_send(mo, NOTE_ON_STATUS, channel, note, vel)

Triple_send_note_off(mo, channel, note) ==
  IF ~note_in_range(note) THEN mo
  ELSE triple_send(mo, NOTE_OFF_STATUS, channel, note, 0)

\* the last line of send_control_change: midi2 gets the message once more
midi2_again(mo, code, channel, d1, d2) ==
  [mo EXCEPT !.m2 = Midi_send(@, code, channel, d1, d2)]

Triple_send_control_change(mo, channel, control, value) ==
  midi2_again(triple_send(mo, CONTROL_CHANGE_STATUS, channel, control, value),
              CONTROL_CHANGE_STATUS, channel, control, value)

(***************************************************************************)
(* hal_mcu.py: MCUEncoderHAL and MCUDualEncoderHAL.  An encoder is a       *)
(* record [value, last_value, last_sw_state, last_button_time]; value is   *)
(* rotary.value(), the count the RotaryIRQ interrupt handler keeps         *)
(***************************************************************************)
ENCODER_START == 0

EncoderInit ==
  [ value            |-> ENCODER_START,
    last_value       |-> ENCODER_START,
    last_sw_state    |-> 1,
    last_button_time |-> 0 ]

\* delta = current_value - self._last_value
enc_delta(en) == en.value - en.last_value

\* the mutation: the value of this query is not stored
enc_get_delta_keep_last(en) == en

enc_get_delta(en) == [en EXCEPT !.last_value = en.value]

\* was_button_pressed returns True: falling edge, and debounced
enc_button_returns(en, sw, t) ==
  /\ sw = 0 /\ en.last_sw_state = 1
  /\ ticks_diff(t, en.last_button_time) > EncDebounce

\* the mutation: the level seen by a poll that reports nothing is not stored
enc_was_button_pressed_keep_level(en, sw, t) ==
  IF enc_button_returns(en, sw, t)
  THEN [en EXCEPT !.last_button_time = t, !.last_sw_state = sw]
  ELSE en

enc_was_button_pressed(en, sw, t) ==
  IF enc_button_returns(en, sw, t)
  THEN [en EXCEPT !.last_button_time = t, !.last_sw_state = sw]
  ELSE [en EXCEPT !.last_sw_state = sw]

DualInit == [left |-> EncoderInit, right |-> EncoderInit, now |-> 0]

\* the mutation: only the primary encoder counts
dual_delta_left_only(d) == enc_delta(d.left)

\* left_delta + right_delta
dual_delta(d) == enc_delta(d.left) + enc_delta(d.right)

dual_get_delta(d) ==
  [d EXCEPT !.left = enc_get_delta(@), !.right = enc_get_delta(@)]

\* left.was_button_pressed() or right.was_button_pressed()
dual_button_returns(d, swl, swr, t) ==
  enc_button_returns(d.left, swl, t) \/ enc_button_returns(d.right, swr, t)

\* "or" does not call the right encoder when the left one returned True
dual_was_button_pressed(d, swl, swr, t) ==
  IF enc_button_returns(d.left, swl, t)
  THEN [d EXCEPT !.left = enc_was_button_pressed(@, swl, t)]
  ELSE [d EXCEPT !.left = enc_was_button_pressed(@, swl, t),
                 !.right = enc_was_button_pressed(@, swr, t)]

(***************************************************************************)
(* hal_mcu.py: MCUTouchStripHAL.  The strip is a record of its bitmasks    *)
(* [reversed, last_touched, current_touched, just_touched, just_released]; *)
(* a bitmask is an integer, bit p for pad p                                *)
(***************************************************************************)
\* value & (1 << i), as 0 or 1
mask_bit(value, i) == (value \div (2 ^ i)) % 2

\* a & ~b on the 12 bits of the pads, from bit i down
RECURSIVE and_not_from(_, _, _)
and_not_from(a, b, i) ==
  IF i < 0 THEN 0
  ELSE (IF mask_bit(a, i) = 1 /\ mask_bit(b, i) = 0 THEN 2 ^ i ELSE 0)
       + and_not_from(a, b, i - 1)

and_not(a, b) == and_not_from(a, b, TOUCH_PAD_COUNT - 1)

\* _reverse_bits: bit i goes to bit 11 - i, for i in range(12)
RECURSIVE reverse_from(_, _)
reverse_from(value, i) ==
  IF i >= 12 THEN 0
  ELSE (IF mask_bit(value, i) = 1 THEN 2 ^ (11 - i) ELSE 0) + reverse_from(value, i + 1)

reverse_bits(value) == reverse_from(value, 0)

TouchInit(reversed) ==
  [ reversed        |-> reversed,
    last_touched    |-> 0,
    current_touched |-> 0,
    just_touched    |-> 0,
    just_released   |-> 0 ]

\* the mutation: the released edges are those of the touched pads
touch_edges_swapped(ts) ==
  [ts EXCEPT !.just_touched = and_not(ts.current_touched, ts.last_touched),
             !.just_released = and_not(ts.current_touched, ts.last_touched)]

\* "Calculate edges"
touch_edges(ts) ==
  [ts EXCEPT !.just_touched = and_not(ts.current_touched, ts.last_touched),
             !.just_released = and_not(ts.last_touched, ts.current_touched)]

\* self._last_touched = self._current_touched, the first statement of update
touch_shift(ts) == [ts EXCEPT !.last_touched = ts.current_touched]

\* update() when self.mpr.touched() returned raw_touched
touch_update(ts, raw_touched) ==
  touch_edges([touch_shift(ts) EXCEPT !.current_touched =
                 IF ts.reversed THEN reverse_bits(raw_touched) ELSE raw_touched])

touch_was_touched(ts, pad) ==
  IF 0 <= pad /\ pad < 12 THEN mask_bit(ts.just_touched, pad) = 1 ELSE FALSE

touch_was_released(ts, pad) ==
  IF 0 <= pad /\ pad < 12 THEN mask_bit(ts.just_released, pad) = 1 ELSE FALSE

(***************************************************************************)
(* chord_machine_app.py: update(), with the buttons and the encoder idle   *)
(***************************************************************************)
\* "Check touch strip for note input": one pad of the loop
update_pad_touched(s, ts, pad) ==
  IF touch_was_touched(ts, pad) THEN trigger_note(s, pad) ELSE s

update_pad(s, ts, pad) ==
  IF touch_was_released(ts, pad)
  THEN release_note(update_pad_touched(s, ts, pad), pad)
  ELSE update_pad_touched(s, ts, pad)

\* for pad in range(Hardware.TOUCH_PAD_COUNT), from pad on
RECURSIVE update_pads(_, _, _)
update_pads(s, ts, pad) ==
  IF pad >= TOUCH_PAD_COUNT THEN s
  ELSE update_pads(update_pad(s, ts, pad), ts, pad + 1)

\* "Update display if dirty"
update_display_if_dirty(s) == IF s.u.display_dirty THEN update_display(s) ELSE s

\* hw.update_outputs(): display.update(), led_matrix.update()
update_outputs(s) ==
  [s EXCEPT !.calls = @ \o << [op |-> "display_update"], [op |-> "led_update"] >>]

\* update() after hw.update_inputs() left the touch strip as ts
update_after_inputs(s, ts) ==
  update_outputs(update_display_if_dirty(update_pads(s, ts, 0)))

(***************************************************************************)
(* chord_machine_app.py: update() as a whole. inp holds what the input     *)
(* objects answer after hw.update_inputs(): the encoder's delta and        *)
(* button, the chord buttons with a press or a release edge, the special   *)
(* button's long press and press, the pads touched and released            *)
(***************************************************************************)
\* "Check encoder rotation", "Check encoder button for mode toggle"
update_encoder_inputs(s, delta, sw) ==
  LET s1 == IF delta # 0 THEN update_encoder(s, delta) ELSE s
  IN  IF sw
      THEN [toggle_mode(s1) EXCEPT !.calls =
              Append(@, [op |-> "encoder_set_value", value |-> ENCODER_START])]
      ELSE s1

\* "Chord buttons": one button of the loop
update_chord_button(s, inp, i) ==
  LET s1 == IF i \in inp.pressed THEN trigger_chord(s, i) ELSE s
  IN  IF i \in inp.released THEN release_chord(s1, i) ELSE s1

\* for i in range(Hardware.TOTAL_BUTTONS), the chord buttons from i on
RECURSIVE update_chord_buttons(_, _, _)
update_chord_buttons(s, inp, i) ==
  IF i >= NUM_CHORD_BUTTONS THEN s
  ELSE update_chord_buttons(update_chord_button(s, inp, i), inp, i + 1)

\* the 12-bit mask with the bits of the pads in S set
RECURSIVE MaskOf(_)
MaskOf(S) ==
  IF S = {} THEN 0
  ELSE LET p == CHOOSE x \in S : TRUE IN 2 ^ p + MaskOf(S \ {p})

update(s, inp) ==
  update_after_inputs(
    special_button(
      update_chord_buttons(update_encoder_inputs(s, inp.delta, inp.sw), inp, 0),
      inp.long, inp.special),
    [just_touched |-> MaskOf(inp.touched), just_released |-> MaskOf(inp.untouched)])

(***************************************************************************)
(* ui_state.py: subscribe, unsubscribe and emit on the table               *)
(* self._subscribers alone; a callback is known by its name and, like the  *)
(* callbacks of the coordinator and of the tests, records the data it is   *)
(* called with                                                             *)
(***************************************************************************)
\* self._subscribers[event_type].append(callback), the list created if absent
subscribe(subs, event_type, callback) ==
  IF ~DictHas(subs, event_type)
  THEN DictSet(subs, event_type, <<callback>>)
  ELSE DictSet(subs, event_type, Append(DictGet(subs, event_type), callback))

\* list.remove(x): the first occurrence goes; ValueError is passed over
RECURSIVE list_remove(_, _)
list_remove(q, x) ==
  IF q = <<>> THEN q
  ELSE IF Head(q) = x THEN Tail(q)
  ELSE <<Head(q)>> \o list_remove(Tail(q), x)

unsubscribe(subs, event_type, callback) ==
  IF DictHas(subs, event_type)
  THEN DictSet(subs, event_type, list_remove(DictGet(subs, event_type), callback))
  ELSE subs

\* the calls of "for callback in q: callback(data)", in order
callback_calls(q, data) == [i \in 1..Len(q) |-> [callback |-> q[i], data |-> data]]

\* the mutation: the callbacks are called latest subscription first
emit_calls_latest_first(subs, event_type, data) ==
  IF DictHas(subs, event_type)
  THEN [i \in 1..Len(DictGet(subs, event_type)) |->
          [callback |-> DictGet(subs, event_type)[Len(DictGet(subs, event_type)) + 1 - i],
           data |-> data]]
  ELSE <<>>

\* the calls emit(event_type, data) makes before it returns
emit_calls(subs, event_type, data) ==
  IF DictHas(subs, event_type)
  THEN callback_calls(DictGet(subs, event_type), data)
  ELSE <<>>

(***************************************************************************)
(* State                                                                   *)
(***************************************************************************)
VARIABLES
  engine,     \* ChordEngine: root_note_class, octave, scale_name, scale_index
  ui,         \* UIState fields
  app,        \* ChordMachineApp: _active_notes_by_degree, _active_notes_by_pad,
              \* _current_chord_degree
  phase,      \* "running" while main() loops, "stopped" after cleanup()
  calls,      \* calls made on the hardware port by the last operation, in order
  events,     \* events emitted by the last operation, in order
  lastOp,     \* the last operation and its argument
  sentOn,     \* history: per chord degree / per pad, the note-on notes sent at
              \* its latest trigger that no release event has answered yet
  nchanges,   \* number of update_encoder calls so far
  holdTrig,   \* history: the degree last triggered while chord-hold was on,
              \* None after every toggle of chord-hold
  encSum,     \* history: the sum of the deltas passed to update_encoder
  evDirty,    \* per event of the last operation, the display_dirty flag its
              \* subscribers saw when it was delivered
  btn,        \* one Button: its fields
  now,        \* time.ticks_ms()
  btnLog,     \* history of the Button: one entry per update() poll
  btnRet,     \* the last edge query of the Button and what it returned
  btnPending, \* history: per kind of edge, whether update() committed one
              \* since the last query of that kind
  midi,       \* the MIDI outputs: per output the messages of the last call,
              \* and the pulse-output peripheral of the software transmitter
  midiOp,     \* the last call on a MIDI output and its arguments
  engRet,     \* the last call on the ChordEngine alone: what it returned or
              \* raised
  engRun,     \* history of the ChordEngine alone: the run of equal calls that
              \* the last call belongs to, and the call before the last
  encs,       \* the two encoders of the combiner, and the time of the last poll
  encRet,     \* the last call on the encoders and what it returned
  encHist,    \* history: per encoder, the count at its previous get_delta, the
              \* sum of the deltas returned for it, the level and the reports
              \* of its push-button, and the switches that fell at the last
              \* poll of the combiner
  touch,      \* the touch strip: its bitmasks
  touchRet,   \* the last call on the touch strip and what it returned
  touchHist,  \* history: the touched bitmask and the edges of the previous poll
  bus,        \* the subscriber table alone: the table, the calls made by the
              \* last operation on it, and the subscriptions in force in order
  loop        \* history of the loop of main(): the chord buttons and pads that
              \* are down, the update() calls made, and per note number the
              \* note-ons and note-offs sent so far

appVars == <<engine, ui, app, phase, calls, events, lastOp, sentOn, nchanges, holdTrig,
             encSum, evDirty>>
btnVars == <<btn, now, btnLog, btnRet, btnPending>>
midiVars == <<midi, midiOp>>
encVars == <<encs, encRet, encHist>>
touchVars == <<touch, touchRet, touchHist>>
extVars == <<engRet, engRun, encs, encRet, encHist, touch, touchRet, touchHist, bus, loop>>
vars == <<engine, ui, app, phase, calls, events, lastOp, sentOn, nchanges, holdTrig,
          encSum, evDirty,
          btn, now, btnLog, btnRet, btnPending, midi, midiOp, engRet, engRun,
          encs, encRet, encHist, touch, touchRet, touchHist, bus, loop>>

Degrees == 0..MaxDegree
Pads == 0..MaxPad
Deltas == (-MaxDelta)..MaxDelta

\* the state a UIState / coordinator operation starts from
Cur == [e |-> engine, u |-> ui, a |-> app, calls |-> <<>>, ev |-> <<>>, dirty |-> <<>>]

\* number of occurrences of x in the sequence q
RECURSIVE Count(_, _)
Count(q, x) == IF q = <<>> THEN 0 ELSE (IF Head(q) = x THEN 1 ELSE 0) + Count(Tail(q), x)

\* note numbers of the note-on / note-off messages in a call sequence
RECURSIVE NotesOf(_, _)
NotesOf(cs, op) ==
  IF cs = <<>> THEN <<>>
  ELSE IF Head(cs).op = op THEN <<Head(cs).note>> \o NotesOf(Tail(cs), op)
  ELSE NotesOf(Tail(cs), op)

\* events of one type in an event sequence
EventsOf(evs, type) == SelectSeq(evs, LAMBDA x : x.type = type)

\* history of un-answered note-ons after an operation that left s
RECURSIVE TrackSent(_, _, _)
TrackSent(so, evs, cs) ==
  IF evs = <<>> THEN so
  ELSE LET x == Head(evs)
           so1 == CASE x.type = "chord_triggered" ->
                         [so EXCEPT !.chord = DictSet(@, x.data.degree, NotesOf(cs, "note_on"))]
                    [] x.type = "chord_released" ->
                         [so EXCEPT !.chord = DictDel(@, x.data.degree)]
                    [] x.type = "note_triggered" ->
                         [so EXCEPT !.pad = DictSet(@, x.data.pad, NotesOf(cs, "note_on"))]
                    [] x.type = "note_released" ->
                         [so EXCEPT !.pad = DictDel(@, x.data.pad)]
                    [] OTHER -> so
       IN  TrackSent(so1, Tail(evs), cs)

\* history after cleanup: the entries whose notes all got a note-off are answered
Unanswered(d, cs) ==
  SelectSeq(d, LAMBDA en : \E i \in 1..Len(en.v) : Count(NotesOf(cs, "note_off"), en.v[i]) = 0)

CommitApp(s, name, arg) ==
  /\ engine' = s.e
  /\ ui' = s.u
  /\ app' = s.a
  /\ calls' = s.calls
  /\ events' = s.ev
  /\ lastOp' = [name |-> name, arg |-> arg]
  /\ evDirty' = s.dirty
  /\ encSum' = IF name = "update_encoder" THEN encSum + arg ELSE encSum
  /\ holdTrig' = IF name = "trigger_chord" /\ ui.chord_hold THEN arg
                 ELSE IF name = "toggle_chord_hold" THEN None
                 ELSE holdTrig
  /\ sentOn' = IF name = "cleanup"
                THEN [chord |-> Unanswered(sentOn.chord, s.calls),
                      pad   |-> Unanswered(sentOn.pad, s.calls)]
                ELSE TrackSent(sentOn, s.ev, s.calls)

\* an operation of the application while the input and output objects rest
Commit(s, name, arg) == CommitApp(s, name, arg) /\ UNCHANGED <<btnVars, midiVars, extVars>>

(***************************************************************************)
(* Init: the state after ChordMachineApp(hardware, midi_channel=0,         *)
(* velocity=100, root_note=60) was constructed (chord_machine_main.py)     *)
(***************************************************************************)
UIStateInit(e) ==
  [ current_scale_index |-> e.scale_index,
    active_chord_degree |-> None,
    encoder_value       |-> 0,
    mode                |-> PLAY,
    led_states          |-> [i \in 1..8 |-> FALSE],
    display_dirty       |-> TRUE,
    chord_hold          |-> FALSE,
    held_chord_degree   |-> None,
    active_notes        |-> <<>> ]

\* the fields set by ChordMachineApp.__init__ around the engine e
AppFields(e) ==
  [ e |-> e, u |-> UIStateInit(e),
    a |-> [ active_notes_by_degree |-> <<>>,
            active_notes_by_pad    |-> <<>>,
            current_chord_degree   |-> None ],
    calls |-> <<>>, ev |-> <<>>, dirty |-> <<>> ]

\* "Initial display update", "Initial LED strip update"
AppInit ==
  update_touch_strip_leds(
    update_display(AppFields(EngineInit(DEFAULT_ROOT_NOTE, DEFAULT_SCALE))))

InitFrom(s) ==
  /\ engine = s.e
  /\ ui = s.u
  /\ app = s.a
  /\ phase = "running"
  /\ calls = <<>>
  /\ events = <<>>
  /\ lastOp = [name |-> "init", arg |-> None]
  /\ sentOn = [chord |-> <<>>, pad |-> <<>>]
  /\ nchanges = 0
  /\ holdTrig = None
  /\ encSum = 0
  /\ evDirty = <<>>

InitApp == InitFrom(AppInit)

(***************************************************************************)
(* Actions: one per operation                                              *)
(***************************************************************************)
TriggerChord(d) ==
  /\ phase = "running"
  /\ Commit(trigger_chord(Cur, d), "trigger_chord", d)
  /\ UNCHANGED <<phase, nchanges>>

ReleaseChord(d) ==
  /\ phase = "running"
  /\ Commit(release_chord(Cur, d), "release_chord", d)
  /\ UNCHANGED <<phase, nchanges>>

TriggerNote(p) ==
  /\ phase = "running"
  /\ Commit(trigger_note(Cur, p), "trigger_note", p)
  /\ UNCHANGED <<phase, nchanges>>

ReleaseNote(p) ==
  /\ phase = "running"
  /\ Commit(release_note(Cur, p), "release_note", p)
  /\ UNCHANGED <<phase, nchanges>>

UpdateEncoder(delta) ==
  /\ phase = "running"
  /\ nchanges < MaxChanges
  /\ Commit(update_encoder(Cur, delta), "update_encoder", delta)
  /\ nchanges' = nchanges + 1
  /\ UNCHANGED phase

\* update_encoder with the deltas of the encoder specification
EncoderTurn(delta) ==
  /\ phase = "running"
  /\ nchanges < MaxTurns
  /\ Commit(update_encoder(Cur, delta), "update_encoder", delta)
  /\ nchanges' = nchanges + 1
  /\ UNCHANGED phase

ToggleMode ==
  /\ phase = "running"
  /\ Commit(toggle_mode(Cur), "toggle_mode", None)
  /\ UNCHANGED <<phase, nchanges>>

ToggleChordHold ==
  /\ phase = "running"
  /\ Commit(toggle_chord_hold(Cur), "toggle_chord_hold", None)
  /\ UNCHANGED <<phase, nchanges>>

Cleanup ==
  /\ phase = "running"
  /\ Commit(cleanup(Cur), "cleanup", None)
  /\ phase' = "stopped"
  /\ UNCHANGED nchanges

(***************************************************************************)
(* The encoders alone: the knobs turn between the queries                  *)
(***************************************************************************)
Channels == {"left", "right"}

InitEncoders ==
  /\ encs = DualInit
  /\ encRet = [op |-> "init", ch |-> "none", delta |-> 0, pressed |-> FALSE,
               swl |-> 1, swr |-> 1]
  /\ encHist = [read  |-> [ch \in Channels |-> ENCODER_START],
                sw    |-> [ch \in Channels |-> 1],
                press |-> [ch \in Channels |-> None],
                run   |-> [ch \in Channels |-> 0],
                fell  |-> {},
                sum  |-> [ch \in Channels |-> 0]]

\* the interrupt handler of one encoder counts a detent
Rotate(ch, step, window) ==
  /\ encs[ch].value + step \in (-window)..window
  /\ encs' = [encs EXCEPT ![ch].value = @ + step]
  /\ encRet' = [encRet EXCEPT !.op = "rotate", !.ch = ch]
  /\ UNCHANGED <<encHist, touchVars, engRet, engRun, appVars, btnVars, midiVars, bus, loop>>

\* get_delta() on one encoder
EncGetDelta(ch) ==
  /\ encs' = [encs EXCEPT ![ch] = enc_get_delta(@)]
  /\ encRet' = [encRet EXCEPT !.op = "get_delta", !.ch = ch, !.delta = enc_delta(encs[ch])]
  /\ encHist' = [encHist EXCEPT !.read[ch] = encs[ch].value,
                                !.sum[ch] = @ + enc_delta(encs[ch])]
  /\ UNCHANGED <<touchVars, engRet, engRun, appVars, btnVars, midiVars, bus, loop>>

\* get_delta() on the combiner
DualGetDelta ==
  /\ encs' = dual_get_delta(encs)
  /\ encRet' = [encRet EXCEPT !.op = "dual_get_delta", !.ch = "both",
                              !.delta = dual_delta(encs)]
  /\ encHist' = [encHist EXCEPT
                   !.read = [ch \in Channels |-> encs[ch].value],
                   !.sum  = [ch \in Channels |-> encHist.sum[ch] + enc_delta(encs[ch])]]
  /\ UNCHANGED <<touchVars, engRet, engRun, appVars, btnVars, midiVars, bus, loop>>

\* the switch level given to the last poll of a channel
SwOf(ret, ch) == IF ch = "left" THEN ret.swl ELSE ret.swr

\* history of the push-button of a channel after a poll that saw the level
\* sw at time t and returned ret: the level, the time of the last reported
\* press, and the presses reported since the level was last high
PollHist(hist, ch, sw, t, ret) ==
  [hist EXCEPT !.sw[ch] = sw,
               !.press[ch] = IF ret THEN t ELSE @,
               !.run[ch] = IF sw = 1 THEN 0 ELSE @ + (IF ret THEN 1 ELSE 0)]

\* was_button_pressed() on one encoder, dt after the previous poll, with its
\* switch pin at sw
EncWasButtonPressed(ch, dt, sw) ==
  /\ encs.now + dt <= MaxEncTime
  /\ encs' = [encs EXCEPT ![ch] = enc_was_button_pressed(@, sw, encs.now + dt),
                          !.now = encs.now + dt]
  /\ encRet' = [encRet EXCEPT !.op = "was_button_pressed", !.ch = ch,
                              !.pressed = enc_button_returns(encs[ch], sw, encs.now + dt),
                              !.swl = IF ch = "left" THEN sw ELSE @,
                              !.swr = IF ch = "right" THEN sw ELSE @]
  /\ encHist' = PollHist(encHist, ch, sw, encs.now + dt,
                         enc_button_returns(encs[ch], sw, encs.now + dt))
  /\ UNCHANGED <<touchVars, engRet, engRun, appVars, btnVars, midiVars, bus, loop>>

\* the switches that are down at this poll of the combiner and were up at
\* its previous poll
FellSince(ret, swl, swr) ==
  {ch \in Channels : SwOf(ret, ch) = 1 /\ (IF ch = "left" THEN swl ELSE swr) = 0}

\* the history after a poll of the combiner: the right encoder is polled
\* only when the left one returned False
DualPollHist(hist, d, swl, swr, t) ==
  IF enc_button_returns(d.left, swl, t)
  THEN PollHist(hist, "left", swl, t, TRUE)
  ELSE PollHist(PollHist(hist, "left", swl, t, FALSE), "right", swr, t,
                enc_button_returns(d.right, swr, t))

\* was_button_pressed() on the combiner, dt after the previous poll, with
\* the two switch pins at swl and swr
DualWasButtonPressed(dt, swl, swr) ==
  /\ encs.now + dt <= MaxEncTime
  /\ encs' = [dual_was_button_pressed(encs, swl, swr, encs.now + dt)
                EXCEPT !.now = encs.now + dt]
  /\ encRet' = [encRet EXCEPT !.op = "dual_was_button_pressed", !.ch = "both",
                              !.pressed = dual_button_returns(encs, swl, swr, encs.now + dt),
                              !.swl = swl, !.swr = swr]
  /\ encHist' = [DualPollHist(encHist, encs, swl, swr, encs.now + dt)
                   EXCEPT !.fell = FellSince(encRet, swl, swr)]
  /\ UNCHANGED <<touchVars, engRet, engRun, appVars, btnVars, midiVars, bus, loop>>

\* MCUTouchStripHAL(i2c, address, reversed)
InitTouch(reversed) ==
  /\ touch = TouchInit(reversed)
  /\ touchRet = [op |-> "init", pad |-> None, r |-> FALSE]
  /\ touchHist = [cur |-> {}, prev |-> {}, prevTouched |-> {}, prevReleased |-> {}]

\* the MIDI outputs after construction: nothing sent, the peripheral idle
InitMidi ==
  /\ midi = MidiInit
  /\ midiOp = [name |-> "init", channel |-> None, d1 |-> None, d2 |-> None]

\* a Button constructed at time 0 on a pin that reads raw
InitBtn(debounce_ms, long_press_ms, raw) ==
  /\ btn = ButtonInit(debounce_ms, long_press_ms, raw, 0)
  /\ now = 0
  /\ btnLog = << [t |-> 0, raw |-> raw, commit |-> FALSE, long |-> FALSE] >>
  /\ btnRet = [q |-> "none", r |-> FALSE]
  /\ btnPending = [pressed |-> FALSE, released |-> FALSE, long |-> FALSE]

\* no call was made yet on the objects that are driven alone
\* UIState.__init__: self._subscribers = {}
BusInit ==
  [subs |-> <<>>, log |-> <<>>, order |-> <<>>, emitted |-> 0,
   op |-> [name |-> "init", type |-> "", callback |-> None, data |-> None]]

\* nothing is down and nothing was sent
LoopInit == [buttons |-> {}, pads |-> {}, ticks |-> 0, on |-> <<>>, off |-> <<>>]

InitExt ==
  /\ engRet = NoReturn
  /\ engRun = NoRun
  /\ InitEncoders
  /\ InitTouch(FALSE)
  /\ bus = BusInit
  /\ loop = LoopInit

InitHal == InitBtn(MaxDebounce, MaxLongPress, 1) /\ InitMidi /\ InitExt

Init == InitApp /\ InitHal

\* the operations of the UI state machine and of the coordinator that
\* ui_state.py and chord_machine_app.py define
Next ==
  \/ \E d \in Degrees : TriggerChord(d)
  \/ \E d \in Degrees : ReleaseChord(d)
  \/ \E p \in Pads : TriggerNote(p)
  \/ \E p \in Pads : ReleaseNote(p)
  \/ \E delta \in Deltas : UpdateEncoder(delta)
  \/ ToggleMode
  \/ Cleanup

Spec == Init /\ [][Next]_vars

\* the chord operations together with the chord-hold toggle
NextHold ==
  \/ \E d \in Degrees : TriggerChord(d)
  \/ \E d \in Degrees : ReleaseChord(d)
  \/ \E delta \in Deltas : UpdateEncoder(delta)
  \/ ToggleChordHold

SpecHold == Init /\ [][NextHold]_vars

\* the encoder and the mode button: several turns, small and large, in
\* every mode
Turns == {-MaxTurn, -1, 0, 1, MaxTurn}

NextEncoder ==
  \/ \E delta \in Turns : EncoderTurn(delta)
  \/ ToggleMode

SpecEncoder == Init /\ [][NextEncoder]_vars

(***************************************************************************)
(* The ChordEngine alone, as test_chord_machine.py drives it: constructed  *)
(* with any root note and scale name, then called                          *)
(***************************************************************************)
EngineRoots == {NOTE_MIN, DEFAULT_ROOT_NOTE, NOTE_MAX}
EngineScales == {DEFAULT_SCALE, "dorian", "blues"}
OctaveSteps == {-MaxOctaveStep, -1, 0, 1, MaxOctaveStep}
AnyDegrees == (-MaxAnyDegree)..MaxAnyDegree

\* ChordEngine(root_note, scale_name); the UIState and the coordinator of the
\* default application take no step
InitEngine ==
  /\ \E r \in EngineRoots, name \in EngineScales :
        InitFrom([AppInit EXCEPT !.e = EngineInit(r, name)])
  /\ InitHal

\* a call on the engine that leaves it as e2 and gives ret
EngCall(e2, name, arg, ret) ==
  /\ engine' = e2
  /\ lastOp' = [name |-> name, arg |-> arg]
  /\ engRet' = ret
  /\ UNCHANGED <<ui, app, phase, calls, events, sentOn, nchanges, holdTrig, encSum,
                 evDirty, engRun, btnVars, midiVars, encVars, touchVars, bus, loop>>

ChangeOctave(delta) == EngCall(change_octave(engine, delta), "change_octave", delta, NoReturn)

SetOctave(octave) == EngCall(set_octave(engine, octave), "set_octave", octave, NoReturn)

SetScaleName(name) == EngCall(set_scale_name(engine, name), "set_scale_name", name, NoReturn)

GetChord(degree) == EngCall(engine, "get_chord", degree, get_chord_call(engine, degree))

GetScaleNote(degree) ==
  EngCall(engine, "get_scale_note", degree, get_scale_note_call(engine, degree))

GetScaleDegrees(name) ==
  EngCall(engine, "get_scale_degrees", name, get_scale_degrees_call(name))

GetChordQuality(name, degree) ==
  EngCall(engine, "get_chord_quality_in_scale", name, get_chord_quality_call(name, degree))

NextEngine ==
  \/ \E delta \in OctaveSteps : ChangeOctave(delta)
  \/ \E octave \in {OctaveMIN + delta : delta \in OctaveSteps} : SetOctave(octave)
  \/ \E name \in EngineScales : SetScaleName(name)
  \/ \E degree \in AnyDegrees : GetChord(degree)
  \/ \E degree \in AnyDegrees : GetScaleNote(degree)
  \/ \E name \in EngineScales : GetScaleDegrees(name)
  \/ \E name \in EngineScales, degree \in 0..(SCALE_DEGREES - 1) : GetChordQuality(name, degree)

SpecEngine == InitEngine /\ [][NextEngine]_vars

(***************************************************************************)
(* The ChordEngine alone: cycling the root note and the scale, with the    *)
(* history of the run of equal calls                                       *)
(***************************************************************************)
CycleSteps == {-MaxCycleStep, -1, 1, MaxCycleStep}

\* the history after the call name(arg) on the engine e
RunAfter(run, e, name, arg) ==
  [ op      |-> name,
    arg     |-> arg,
    n       |-> IF run.op = name /\ run.arg = arg THEN Min2(run.n + 1, MaxRun + 1) ELSE 1,
    start   |-> IF run.op = name /\ run.arg = arg THEN run.start ELSE e,
    before  |-> e,
    prevOp  |-> run.op,
    prevArg |-> run.arg,
    before2 |-> run.before ]

\* a call on the engine that leaves it as e2, with its history
RunCall(e2, name, arg) ==
  /\ engine' = e2
  /\ lastOp' = [name |-> name, arg |-> arg]
  /\ engRet' = NoReturn
  /\ engRun' = RunAfter(engRun, engine, name, arg)
  /\ UNCHANGED <<ui, app, phase, calls, events, sentOn, nchanges, holdTrig, encSum,
                 evDirty, btnVars, midiVars, encVars, touchVars, bus, loop>>

CycleRootNote(delta) == RunCall(cycle_root_note(engine, delta), "cycle_root_note", delta)

SetRootNoteClass(note_class) ==
  RunCall(set_root_note_class(engine, note_class), "set_root_note_class", note_class)

NextScale == RunCall(next_scale(engine), "next_scale", None)

PrevScale == RunCall(prev_scale(engine), "prev_scale", None)

NextCycle ==
  \/ \E delta \in CycleSteps : CycleRootNote(delta)
  \/ \E note_class \in {-1, NOTES_PER_OCTAVE} : SetRootNoteClass(note_class)
  \/ NextScale
  \/ PrevScale

SpecCycle == InitEngine /\ [][NextCycle]_vars

NextRotary ==
  \/ \E ch \in Channels, step \in {-MaxRotary, -1, 1, MaxRotary} : Rotate(ch, step, MaxRotary)
  \/ \E ch \in Channels : EncGetDelta(ch)
  \/ DualGetDelta

SpecRotary == Init /\ [][NextRotary]_vars

NextDual ==
  \/ \E ch \in Channels, step \in {-1, 1} : Rotate(ch, step, 1)
  \/ DualGetDelta
  \/ \E dt \in 1..MaxEncDt, swl \in {0, 1}, swr \in {0, 1} : DualWasButtonPressed(dt, swl, swr)

SpecDual == Init /\ [][NextDual]_vars

\* the push-buttons of the two encoders, each polled on its own
NextEncButton ==
  \E ch \in Channels, dt \in 1..MaxEncDt, sw \in {0, 1} : EncWasButtonPressed(ch, dt, sw)

SpecEncButton == Init /\ [][NextEncButton]_vars

(***************************************************************************)
(* The touch strip alone: polls with any electrodes touched, and the edge  *)
(* queries in between                                                      *)
(***************************************************************************)
TouchElectrodes == {0, 1, TOUCH_PAD_COUNT - 1}

\* the register value self.mpr.touched() returns when the electrodes els are
\* touched
RECURSIVE raw_of(_)
raw_of(els) ==
  IF els = {} THEN 0
  ELSE LET e == CHOOSE x \in els : TRUE IN 2 ^ e + raw_of(els \ {e})

\* the pads the HAL reports for a bitmask
PadsOf(mask) == {p \in 0..(TOUCH_PAD_COUNT - 1) : mask_bit(mask, p) = 1}

\* history after a poll with the electrodes els touched: the pads they stand
\* for, those of the poll before, and the edges the HAL reported before
TouchHistAfter(ts, hist, els) ==
  [ cur  |-> {IF ts.reversed THEN (TOUCH_PAD_COUNT - 1) - e ELSE e : e \in els},
    prev |-> hist.cur,
    prevTouched  |-> {p \in 0..(TOUCH_PAD_COUNT - 1) : touch_was_touched(ts, p)},
    prevReleased |-> {p \in 0..(TOUCH_PAD_COUNT - 1) : touch_was_released(ts, p)} ]

TouchUpdate(els) ==
  /\ touch' = touch_update(touch, raw_of(els))
  /\ touchRet' = [op |-> "update", pad |-> None, r |-> FALSE]
  /\ touchHist' = TouchHistAfter(touch, touchHist, els)
  /\ UNCHANGED <<encVars, engRet, engRun, appVars, btnVars, midiVars, bus, loop>>

TouchWasTouched(pad) ==
  /\ touchRet' = [op |-> "was_touched", pad |-> pad, r |-> touch_was_touched(touch, pad)]
  /\ UNCHANGED <<touch, touchHist, encVars, engRet, engRun, appVars, btnVars, midiVars, bus, loop>>

TouchWasReleased(pad) ==
  /\ touchRet' = [op |-> "was_released", pad |-> pad, r |-> touch_was_released(touch, pad)]
  /\ UNCHANGED <<touch, touchHist, encVars, engRet, engRun, appVars, btnVars, midiVars, bus, loop>>

\* MCUTouchStripHAL with either pad order
InitTouchStrip ==
  /\ InitApp
  /\ InitBtn(MaxDebounce, MaxLongPress, 1)
  /\ InitMidi
  /\ engRet = NoReturn
  /\ engRun = NoRun
  /\ InitEncoders
  /\ bus = BusInit
  /\ loop = LoopInit
  /\ \E reversed \in BOOLEAN : InitTouch(reversed)

QueryPads == {-1, 0, 1, TOUCH_PAD_COUNT - 1, TOUCH_PAD_COUNT}

NextTouch ==
  \/ \E els \in SUBSET TouchElectrodes : TouchUpdate(els)
  \/ \E pad \in QueryPads : TouchWasTouched(pad)
  \/ \E pad \in QueryPads : TouchWasReleased(pad)

SpecTouch == InitTouchStrip /\ [][NextTouch]_vars

(***************************************************************************)
(* The loop of main() with the touch strip as its only moving input: one   *)
(* action per iteration                                                    *)
(***************************************************************************)
\* app.update() in which the sensor read returned the electrodes els
UpdateTouch(els) ==
  /\ phase = "running"
  /\ touch' = touch_update(touch, raw_of(els))
  /\ touchRet' = [op |-> "update", pad |-> None, r |-> FALSE]
  /\ touchHist' = TouchHistAfter(touch, touchHist, els)
  /\ CommitApp(update_after_inputs(Cur, touch_update(touch, raw_of(els))), "update", None)
  /\ UNCHANGED <<phase, nchanges, btnVars, midiVars, encVars, engRet, engRun, bus, loop>>

\* app.update() in which self.mpr.touched() raised: the exception leaves
\* touch_strip.update(), update_inputs(), update() and the while loop of
\* main(), whose finally clause runs app.cleanup()
UpdateTouchRaises ==
  /\ phase = "running"
  /\ touch' = touch_shift(touch)
  /\ touchRet' = [op |-> "update_raised", pad |-> None, r |-> FALSE]
  /\ CommitApp(cleanup(Cur), "update_raised", None)
  /\ phase' = "stopped"
  /\ UNCHANGED <<touchHist, nchanges, btnVars, midiVars, encVars, engRet, engRun, bus, loop>>

NextTouchLoop ==
  \/ \E els \in SUBSET TouchElectrodes : UpdateTouch(els)
  \/ UpdateTouchRaises

SpecTouchLoop == Init /\ [][NextTouchLoop]_vars

(***************************************************************************)
(* get_chord and UIState.trigger_chord called with any integer degree, on  *)
(* the application as constructed                                          *)
(***************************************************************************)
\* a degree in 0..6, the degrees at the ends of the LED list and next to
\* them, a negative degree the lists take, and the far ends
WrapDegrees == {-MaxAnyDegree, -9, -8, -2, 0, 7, 8, MaxAnyDegree}

TriggerChordAny(degree) ==
  /\ phase = "running"
  /\ CommitApp(trigger_chord_call(Cur, degree).s, "trigger_chord", degree)
  /\ engRet' = [NoReturn EXCEPT !.raised = trigger_chord_call(Cur, degree).raised]
  /\ UNCHANGED <<phase, nchanges, engRun, btnVars, midiVars, encVars, touchVars, bus, loop>>

NextDegree ==
  \/ \E degree \in WrapDegrees : GetChord(degree)
  \/ \E degree \in WrapDegrees : TriggerChordAny(degree)

SpecDegree == Init /\ [][NextDegree]_vars

(***************************************************************************)
(* The ChordEngine alone, over every root note and every scale of the      *)
(* table: the chords, scale notes and chord qualities it computes          *)
(***************************************************************************)
AllScales == {ScaleNames[i] : i \in 1..Len(ScaleNames)}

\* ChordEngine(root_note, scale_name) for every MIDI root and defined scale
InitTheory ==
  /\ \E r \in NOTE_MIN..NOTE_MAX, name \in AllScales :
        InitFrom([AppInit EXCEPT !.e = EngineInit(r, name)])
  /\ InitHal

\* get_chord_quality_in_scale(name, degree), remembered with both arguments
GetQualityOf(name, degree) ==
  EngCall(engine, "get_chord_quality_in_scale", [name |-> name, degree |-> degree],
          get_chord_quality_call(name, degree))

NextTheory ==
  \/ \E degree \in 0..(SCALE_DEGREES - 1) : GetChord(degree)
  \/ \E degree \in 0..(SCALE_DEGREES + 4) : GetScaleNote(degree)
  \/ \E degree \in 0..(SCALE_DEGREES - 1) : GetQualityOf(engine.scale_name, degree)

SpecTheory == InitTheory /\ [][NextTheory]_vars

(***************************************************************************)
(* The touch pads over the whole strip: notes triggered and released while *)
(* the encoder and the mode button change root and scale                   *)
(***************************************************************************)
\* the root pad, its octave and the last pad of the strip
NotePads == {0, SCALE_DEGREES, TOUCH_PAD_COUNT - 1}

NextPads ==
  \/ \E p \in NotePads : TriggerNote(p)
  \/ \E p \in NotePads : ReleaseNote(p)
  \/ \E delta \in Deltas : UpdateEncoder(delta)
  \/ ToggleMode

SpecPads == Init /\ [][NextPads]_vars

(***************************************************************************)
(* The publish/subscribe table alone: a client subscribes and unsubscribes *)
(* callbacks and emits events, each event with data of its own             *)
(***************************************************************************)
EventTypes == {"scale_changed", "chord_triggered"}
Callbacks == {"f", "g"}

\* the subscriptions in force, in the order they were made
order_after_unsubscribe(order, event_type, callback) ==
  list_remove(order, [type |-> event_type, callback |-> callback])

BusOp(name, event_type, callback, data) ==
  [name |-> name, type |-> event_type, callback |-> callback, data |-> data]

BusRest == UNCHANGED <<appVars, btnVars, midiVars, engRet, engRun, encVars, touchVars, loop>>

Subscribe(event_type, callback) ==
  /\ Len(bus.order) < MaxSubs
  /\ bus' = [bus EXCEPT !.subs = subscribe(@, event_type, callback),
                        !.log = <<>>,
                        !.order = Append(@, [type |-> event_type, callback |-> callback]),
                        !.op = BusOp("subscribe", event_type, callback, None)]
  /\ BusRest

Unsubscribe(event_type, callback) ==
  /\ bus' = [bus EXCEPT !.subs = unsubscribe(@, event_type, callback),
                        !.log = <<>>,
                        !.order = order_after_unsubscribe(@, event_type, callback),
                        !.op = BusOp("unsubscribe", event_type, callback, None)]
  /\ BusRest

\* emit(event_type, data): data is the number of the emit
Emit(event_type) ==
  /\ bus.emitted < MaxEmits
  /\ bus' = [bus EXCEPT !.log = emit_calls(bus.subs, event_type, bus.emitted + 1),
                        !.emitted = @ + 1,
                        !.op = BusOp("emit", event_type, None, bus.emitted + 1)]
  /\ BusRest

NextBus ==
  \/ \E event_type \in EventTypes, callback \in Callbacks : Subscribe(event_type, callback)
  \/ \E event_type \in EventTypes, callback \in Callbacks : Unsubscribe(event_type, callback)
  \/ \E event_type \in EventTypes : Emit(event_type)

SpecBus == Init /\ [][NextBus]_vars

(***************************************************************************)
(* The scale selection: set_scale, the encoder in every mode, and the      *)
(* scale setters of the engine, with any index                             *)
(***************************************************************************)
\* indexes inside, at the ends of and around 0 .. N-1
ScaleIndexes == {-1, 0, 1, Len(ScaleNames) - 1, Len(ScaleNames), Len(ScaleNames) + 1}

SetScale(index) ==
  /\ phase = "running"
  /\ Commit(set_scale(Cur, index), "set_scale", index)
  /\ UNCHANGED <<phase, nchanges>>

\* chord_engine.scale_index = index
SetScaleIndex(index) ==
  EngCall(set_scale_index(engine, index), "scale_index", index, NoReturn)

NextScaleSelect ==
  \/ \E index \in ScaleIndexes : SetScale(index)
  \/ \E delta \in Deltas : UpdateEncoder(delta)
  \/ ToggleMode
  \/ \E index \in ScaleIndexes : SetScaleIndex(index)
  \/ \E name \in EngineScales : SetScaleName(name)

SpecScaleSelect == Init /\ [][NextScaleSelect]_vars

(***************************************************************************)
(* The Button alone: polls at increasing times with any raw level, and the *)
(* edge queries in between                                                 *)
(***************************************************************************)
\* the edges that are un-queried after an update() with history entry e
PendingAfter(pend, e) ==
  [ pressed  |-> pend.pressed \/ (e.commit /\ e.raw = 0),
    released |-> pend.released \/ (e.commit /\ e.raw # 0),
    long     |-> pend.long \/ e.long ]

ButtonUpdate(dt, raw) ==
  /\ Len(btnLog) <= MaxPolls
  /\ now' = now + dt
  /\ btn' = button_update(btn, now + dt, raw)
  /\ btnLog' = Append(btnLog, button_update_log(btn, now + dt, raw))
  /\ btnPending' = PendingAfter(btnPending, button_update_log(btn, now + dt, raw))
  /\ UNCHANGED <<btnRet, engine, ui, app, phase, calls, events, lastOp, sentOn, nchanges, holdTrig, encSum, evDirty, midi, midiOp, extVars>>

WasPressed ==
  /\ btnRet' = [q |-> "was_pressed", r |-> btn.pressed_event]
  /\ btn' = was_pressed(btn)
  /\ btnPending' = [btnPending EXCEPT !.pressed = FALSE]
  /\ UNCHANGED <<now, btnLog, engine, ui, app, phase, calls, events, lastOp, sentOn, nchanges, holdTrig, encSum, evDirty, midi, midiOp, extVars>>

WasReleased ==
  /\ btnRet' = [q |-> "was_released", r |-> btn.released_event]
  /\ btn' = was_released(btn)
  /\ btnPending' = [btnPending EXCEPT !.released = FALSE]
  /\ UNCHANGED <<now, btnLog, engine, ui, app, phase, calls, events, lastOp, sentOn, nchanges, holdTrig, encSum, evDirty, midi, midiOp, extVars>>

WasLongPressed ==
  /\ btnRet' = [q |-> "was_long_pressed", r |-> btn.long_press_event]
  /\ btn' = was_long_pressed(btn)
  /\ btnPending' = [btnPending EXCEPT !.long = FALSE]
  /\ UNCHANGED <<now, btnLog, engine, ui, app, phase, calls, events, lastOp, sentOn, nchanges, holdTrig, encSum, evDirty, midi, midiOp, extVars>>

\* Button(pin, debounce_ms=..., long_press_ms=...) on a pin at either level
InitButton ==
  /\ InitApp
  /\ InitMidi
  /\ InitExt
  /\ \E debounce_ms \in 1..MaxDebounce, long_press_ms \in (MaxLongPress - 1)..MaxLongPress,
        raw \in {0, 1} : InitBtn(debounce_ms, long_press_ms, raw)

NextButton ==
  \/ \E dt \in 1..MaxDt, raw \in {0, 1} : ButtonUpdate(dt, raw)
  \/ WasPressed
  \/ WasReleased
  \/ WasLongPressed

SpecButton == InitButton /\ [][NextButton]_vars

(***************************************************************************)
(* The MIDI outputs alone: calls of the triple output, of the single       *)
(* output and of the software transmitter, and the peripheral sending the  *)
(* submitted segments in the background                                    *)
(***************************************************************************)
\* arguments of the calls through the HAL, which the coordinator keeps in range
HalChannels == {0, 15}
HalNotes == {NOTE_MIN - 1, NOTE_MIN, DEFAULT_ROOT_NOTE, NOTE_MAX, NOTE_MAX + 1}
HalValues == {0, VELOCITY_DEFAULT}
\* arguments of direct calls of the software transmitter
TxChannels == {0, 9, 16 + 1}
TxValues == {-1, DEFAULT_ROOT_NOTE, NOTE_MAX + 1 + VELOCITY_DEFAULT}
TxData == {<<>>} \cup {<<b>> : b \in 0..255} \cup {<<NOTE_ON_STATUS, DEFAULT_ROOT_NOTE>>}

MidiCommit(mo, name, channel, d1, d2) ==
  /\ midi' = mo
  /\ midiOp' = [name |-> name, channel |-> channel, d1 |-> d1, d2 |-> d2]
  /\ UNCHANGED <<appVars, btnVars, extVars>>

TripleNoteOn(channel, note, vel) ==
  /\ ~note_in_range(note) \/ write_returns(midi.rmt, message_bytes(NOTE_ON_STATUS, channel, note, vel))
  /\ MidiCommit(Triple_send_note_on(MidiCall(midi), channel, note, vel),
                "triple_note_on", channel, note, vel)

TripleNoteOff(channel, note) ==
  /\ ~note_in_range(note) \/ write_returns(midi.rmt, message_bytes(NOTE_OFF_STATUS, channel, note, 0))
  /\ MidiCommit(Triple_send_note_off(MidiCall(midi), channel, note),
                "triple_note_off", channel, note, 0)

TripleControlChange(channel, control, value) ==
  /\ write_returns(midi.rmt, message_bytes(CONTROL_CHANGE_STATUS, channel, control, value))
  /\ MidiCommit(Triple_send_control_change(MidiCall(midi), channel, control, value),
                "triple_control_change", channel, control, value)

McuNoteOn(channel, note, vel) ==
  MidiCommit(MCU_send_note_on(MidiCall(midi), channel, note, vel),
             "mcu_note_on", channel, note, vel)

McuNoteOff(channel, note) ==
  MidiCommit(MCU_send_note_off(MidiCall(midi), channel, note),
             "mcu_note_off", channel, note, 0)

TxSend(name, code, channel, d1, d2) ==
  /\ write_returns(midi.rmt, message_bytes(code, channel, d1, d2))
  /\ MidiCommit(SoftwareMidiTx_send(MidiCall(midi), code, channel, d1, d2),
                name, channel, d1, d2)

TxWrite(data) ==
  /\ write_returns(midi.rmt, data)
  /\ midi' = [MidiCall(midi) EXCEPT !.m3 = IF data = <<>> THEN <<>> ELSE <<data>>,
                                    !.rmt = SoftwareMidiTx_write(@, data)]
  /\ midiOp' = [name |-> "write", channel |-> None, d1 |-> None, d2 |-> None]
  /\ UNCHANGED <<appVars, btnVars, extVars>>

\* the peripheral has sent the first segment in flight
RmtProgress ==
  /\ midi.rmt.inflight # <<>>
  /\ midi' = [midi EXCEPT !.rmt.inflight = Tail(@)]
  /\ UNCHANGED <<midiOp, appVars, btnVars, extVars>>

NextMidi ==
  \/ \E c \in HalChannels, n \in HalNotes, v \in HalValues : TripleNoteOn(c, n, v)
  \/ \E c \in HalChannels, n \in HalNotes : TripleNoteOff(c, n)
  \/ \E c \in HalChannels, k \in HalValues, v \in HalValues : TripleControlChange(c, k, v)
  \/ \E c \in HalChannels, n \in HalNotes, v \in HalValues : McuNoteOn(c, n, v)
  \/ \E c \in HalChannels, n \in HalNotes : McuNoteOff(c, n)
  \/ RmtProgress

SpecMidi == Init /\ [][NextMidi]_vars

\* the software transmitter alone, called directly with any arguments
NextTx ==
  \/ \E c \in TxChannels, n \in TxValues, v \in TxValues :
        TxSend("tx_note_on", NOTE_ON_STATUS, c, n, v)
  \/ \E c \in TxChannels, n \in TxValues :
        TxSend("tx_note_off", NOTE_OFF_STATUS, c, n, 0)
  \/ \E c \in TxChannels, k \in TxValues, v \in TxValues :
        TxSend("tx_control_change", CONTROL_CHANGE_STATUS, c, k, v)
  \/ \E data \in TxData : TxWrite(data)
  \/ RmtProgress

SpecTx == Init /\ [][NextTx]_vars

(***************************************************************************)
(* Properties of the output coordinator                                    *)
(***************************************************************************)
\* the notes of every un-answered note-on of the history, chords then pads
RECURSIVE AllSent(_)
AllSent(d) == IF d = <<>> THEN <<>> ELSE Head(d).v \o AllSent(Tail(d))

\* positions of the calls named op in a call sequence
PositionsOf(cs, op) == {i \in 1..Len(cs) : cs[i].op = op}

\* the record of the coordinator agrees with the history of sent note-ons
RecordsMatchSent(a, so) ==
  /\ DictKeys(a.active_notes_by_degree) = DictKeys(so.chord)
  /\ \A d \in DictKeys(so.chord) :
        DictGet(a.active_notes_by_degree, d) = DictGet(so.chord, d)

\* C1: when ChordReleased{d} is handled, the note-offs sent are exactly the
\* notes that were sent as note-on and recorded at the latest trigger of d,
\* whatever the root, octave and scale are now, and afterwards d has no record.
C1_ReleaseSendsRecordedChord ==
  [][ /\ RecordsMatchSent(app', sentOn')
      /\ \A d \in 0..6 :
           lastOp' = [name |-> "release_chord", arg |-> d] =>
             /\ NotesOf(calls', "note_off") =
                  (IF DictHas(sentOn.chord, d) THEN DictGet(sentOn.chord, d) ELSE <<>>)
             /\ ~DictHas(app'.active_notes_by_degree, d) ]_vars

\* C1 witness: a chord was released after the root or scale changed, so the
\* note-offs sent differ from the chord the engine computes now
C1_Witness ==
  /\ lastOp.name = "release_chord"
  /\ NotesOf(calls, "note_off") # <<>>
  /\ NotesOf(calls, "note_off") # get_chord(engine, lastOp.arg).notes

\* C2: when NoteReleased{pad} is handled the note-off sent is for the note
\* recorded at the pad's trigger; a pad release leaves the chord records alone
\* and sends nothing else, a chord release leaves the pad records alone and
\* sends only the chord's notes.
C2_PadAndChordRecordsIndependent ==
  [][ /\ \A p \in 0..(TOUCH_PAD_COUNT - 1) :
           lastOp' = [name |-> "release_note", arg |-> p] =>
             /\ NotesOf(calls', "note_off") =
                  (IF DictHas(sentOn.pad, p) THEN DictGet(sentOn.pad, p) ELSE <<>>)
             /\ ~DictHas(app'.active_notes_by_pad, p)
             /\ \A q \in DictKeys(app.active_notes_by_pad) \ {p} :
                  /\ DictHas(app'.active_notes_by_pad, q)
                  /\ DictGet(app'.active_notes_by_pad, q) = DictGet(app.active_notes_by_pad, q)
             /\ app'.active_notes_by_degree = app.active_notes_by_degree
      /\ \A d \in 0..6 :
           lastOp' = [name |-> "release_chord", arg |-> d] =>
             /\ app'.active_notes_by_pad = app.active_notes_by_pad
             /\ Len(NotesOf(calls', "note_off")) =
                  (IF DictHas(app.active_notes_by_degree, d)
                   THEN Len(DictGet(app.active_notes_by_degree, d)) ELSE 0) ]_vars

\* C2 witness: a pad was released after the root or scale changed, while a
\* chord record that holds the same note number stays
C2_Witness ==
  /\ lastOp.name = "release_note"
  /\ Len(NotesOf(calls, "note_off")) = 1
  /\ NotesOf(calls, "note_off")[1] # get_scale_note(engine, lastOp.arg)
  /\ \E i \in 1..Len(app.active_notes_by_degree) :
        Count(app.active_notes_by_degree[i].v, NotesOf(calls, "note_off")[1]) > 0

\* C3: cleanup() sends a note-off for every note still recorded for a chord
\* degree or a touch pad, all of them before the LEDs and the display are
\* cleared, and leaves both records empty.
C3_CleanupTurnsEverythingOff ==
  [][ lastOp'.name = "cleanup" =>
        /\ LET offs == NotesOf(calls', "note_off")
               ons  == AllSent(sentOn.chord) \o AllSent(sentOn.pad)
           IN  \A n \in {offs[i] : i \in 1..Len(offs)} \cup {ons[i] : i \in 1..Len(ons)} :
                  Count(offs, n) = Count(ons, n)
        /\ Len(NotesOf(calls', "note_off")) =
              Len(AllSent(sentOn.chord) \o AllSent(sentOn.pad))
        /\ PositionsOf(calls', "led_clear") # {}
        /\ PositionsOf(calls', "display_clear") # {}
        /\ \A i \in PositionsOf(calls', "note_off") :
              \A j \in PositionsOf(calls', "led_clear") \cup PositionsOf(calls', "display_clear") :
                 i < j
        /\ app'.active_notes_by_degree = <<>>
        /\ app'.active_notes_by_pad = <<>> ]_vars

\* C3 witness: cleanup ran while a chord and a pad were still recorded
C3_Witness ==
  /\ lastOp.name = "cleanup"
  /\ Len(NotesOf(calls, "note_off")) >= 4
  /\ phase = "stopped"

\* the single slot the UI state keeps for the active chord, as get_display_data
\* reads it
ActiveDegrees(u) ==
  IF u.active_chord_degree = None THEN {} ELSE {u.active_chord_degree}

\* the events of the last operation, as <<type, degree>> pairs of the chord events
RECURSIVE ChordEvents(_)
ChordEvents(evs) ==
  IF evs = <<>> THEN <<>>
  ELSE IF Head(evs).type \in {"chord_triggered", "chord_released"}
       THEN << <<Head(evs).type, Head(evs).data.degree>> >> \o ChordEvents(Tail(evs))
       ELSE ChordEvents(Tail(evs))

\* C4: while chord-hold is on, release_chord(d) of a degree that was triggered
\* and not released emits no ChordReleased event, sends no note-off, leaves
\* the sounding notes of d recorded, and d is the held chord degree.
C4_ReleaseUnderHoldKeepsChord ==
  [][ \A d \in 0..6 :
        ( /\ ui.chord_hold
          /\ DictHas(sentOn.chord, d)
          /\ lastOp' = [name |-> "release_chord", arg |-> d] )
        => /\ EventsOf(events', "chord_released") = <<>>
           /\ NotesOf(calls', "note_off") = <<>>
           /\ DictHas(app'.active_notes_by_degree, d)
           /\ ui'.held_chord_degree = d ]_vars

\* C5: while chord-hold is on, trigger_chord(e) makes e the held degree, and
\* when another degree d was held (it was the last one triggered under hold)
\* the operation emits ChordReleased{d} first and ChordTriggered{e} second.
C5_TriggerUnderHoldReplacesHeld ==
  [][ \A e \in 0..6 :
        ( /\ ui.chord_hold
          /\ lastOp' = [name |-> "trigger_chord", arg |-> e] )
        => /\ ui'.held_chord_degree = e
           /\ (holdTrig # None /\ holdTrig # e) =>
                ChordEvents(events') =
                  << <<"chord_released", holdTrig>>, <<"chord_triggered", e>> >> ]_vars

\* C6: toggle_chord_hold() flips the flag and emits one ChordHoldChanged event
\* with the new value; when it turns the flag off while a degree d is held (d
\* was the last degree triggered under hold) it also emits ChordReleased{d} and
\* clears the held degree, and no degree is ever held while hold is off.
C6_ToggleChordHold ==
  [][ /\ (~ui'.chord_hold) => ui'.held_chord_degree = None
      /\ lastOp'.name = "toggle_chord_hold" =>
           /\ ui'.chord_hold = ~ui.chord_hold
           /\ EventsOf(events', "chord_hold_changed") =
                << [type |-> "chord_hold_changed",
                    data |-> [chord_hold |-> ui'.chord_hold]] >>
           /\ (ui.chord_hold /\ holdTrig # None) =>
                /\ ChordEvents(events') = << <<"chord_released", holdTrig>> >>
                /\ ui'.held_chord_degree = None ]_vars

\* C7: trigger_chord(d) makes d the active chord degree and emits exactly one
\* ChordTriggered event with d and the notes, name and numeral of the engine's
\* chord for d; release_chord(d) emits exactly one ChordReleased{d} and
\* afterwards d is not the active degree.
C7_TriggerAndReleaseEvents ==
  [][ \A d \in 0..6 :
        /\ (~ui.chord_hold /\ lastOp' = [name |-> "trigger_chord", arg |-> d]) =>
             /\ ui'.active_chord_degree = d
             /\ events' = << [type |-> "chord_triggered",
                              data |-> [degree  |-> d,
                                        notes   |-> get_chord(engine, d).notes,
                                        name    |-> get_chord(engine, d).name,
                                        numeral |-> get_chord(engine, d).numeral]] >>
        /\ (~ui.chord_hold /\ lastOp' = [name |-> "release_chord", arg |-> d]) =>
             /\ events' = << [type |-> "chord_released", data |-> [degree |-> d]] >>
             /\ ui'.active_chord_degree # d ]_vars

C7_Witness ==
  /\ lastOp = [name |-> "release_chord", arg |-> 1]
  /\ events = << [type |-> "chord_released", data |-> [degree |-> 1]] >>
  /\ NotesOf(calls, "note_off") = <<62, 65, 69>>
  /\ ui.active_chord_degree = None
  /\ ~ui.chord_hold

\* C8: with chord-hold off, the chords the UI state treats as active are
\* exactly the degrees that were triggered and not released since.
C8_ActiveAreTriggeredNotReleased ==
  (phase = "running" /\ ~ui.chord_hold) =>
    ActiveDegrees(ui) = DictKeys(sentOn.chord)

\* time of the first poll of the run of equal raw levels that ends at poll i
RECURSIVE RunStart(_, _)
RunStart(log, i) ==
  IF i > 1 /\ log[i - 1].raw = log[i].raw THEN RunStart(log, i - 1) ELSE log[i].t

\* C9: a poll commits nothing (the stable level stays, no pressed or released
\* event is raised) when the raw level is the stable level again, or when the
\* run of polls at the other level has lasted less than debounce_ms.
C9_BounceCommitsNothing ==
  [][ (btnLog' # btnLog) =>
        ( ( \/ btnLog'[Len(btnLog')].raw = btn.stable
            \/ now' - RunStart(btnLog', Len(btnLog')) < btn.debounce_ms )
          => /\ btn'.stable = btn.stable
             /\ btn'.pressed_event = btn.pressed_event
             /\ btn'.released_event = btn.released_event ) ]_vars

\* the raw level left the stable level and came back twice, over more time than
\* the debounce window, and nothing was ever committed
C9_Witness ==
  /\ Len(btnLog) = 5
  /\ \A i \in 1..5 : btnLog[i].raw = (i % 2) /\ ~btnLog[i].commit
  /\ now > btn.debounce_ms
  /\ btn.stable = 1
  /\ ~btn.pressed_event /\ ~btn.released_event

\* the polls of the press committed at poll i: up to the next commit
PressPolls(log, i) ==
  {k \in i..Len(log) : \A j \in (i + 1)..k : ~log[j].commit}

\* C10: for every committed press, the long-press event is raised at the first
\* poll of the press that is at least long_press_ms after the commit, at no
\* other poll of the press, and at no poll outside a committed press.
C10_LongPressOncePerPress ==
  /\ \A i \in 1..Len(btnLog) :
       (btnLog[i].commit /\ btnLog[i].raw = 0) =>
         {k \in PressPolls(btnLog, i) : btnLog[k].long} =
           {k \in PressPolls(btnLog, i) :
              /\ btnLog[k].t - btnLog[i].t >= btn.long_press_ms
              /\ \A j \in PressPolls(btnLog, i) :
                   j < k => btnLog[j].t - btnLog[i].t < btn.long_press_ms}
  /\ \A k \in 1..Len(btnLog) :
       btnLog[k].long =>
         \E i \in 1..k : btnLog[i].commit /\ btnLog[i].raw = 0 /\ k \in PressPolls(btnLog, i)
  /\ btn.long_press_event => \E k \in 1..Len(btnLog) : btnLog[k].long

\* a press was committed, the long-press event was raised once, and two more
\* polls found the button still pressed
C10_Witness ==
  \E i \in 1..Len(btnLog) :
    /\ btnLog[i].commit /\ btnLog[i].raw = 0
    /\ \E k \in PressPolls(btnLog, i) :
         /\ btnLog[k].long
         /\ k + 2 \in PressPolls(btnLog, i)
         /\ btnLog[k + 2].raw = 0
    /\ btn.stable = 0

\* the polls of the history that committed a change of the stable level
CommitPolls(log) == {i \in 1..Len(log) : log[i].commit}

\* C11: an update() that changes the stable level raises the pressed event for
\* a change to the pressed level and the released event for a change to the
\* released level, and only that one; an update() that does not change the
\* stable level raises neither; and committed changes alternate between the
\* two levels, so the raised pressed and released events alternate.
C11_OneEdgePerCommit ==
  [][ (btnLog' # btnLog) =>
        /\ (btn'.stable # btn.stable /\ btn'.stable = 0) =>
              /\ btn'.pressed_event
              /\ btn'.released_event = btn.released_event
              /\ btnPending'.pressed /\ btnPending'.released = btnPending.released
        /\ (btn'.stable # btn.stable /\ btn'.stable # 0) =>
              /\ btn'.released_event
              /\ btn'.pressed_event = btn.pressed_event
              /\ btnPending'.released /\ btnPending'.pressed = btnPending.pressed
        /\ (btn'.stable = btn.stable) =>
              /\ btn'.pressed_event = btn.pressed_event
              /\ btn'.released_event = btn.released_event
        /\ btnLog'[Len(btnLog')].commit = (btn'.stable # btn.stable)
        /\ \A i, j \in CommitPolls(btnLog') :
              (i < j /\ \A k \in (i + 1)..(j - 1) : k \notin CommitPolls(btnLog'))
                => btnLog'[i].raw # btnLog'[j].raw ]_vars

\* a press, a release and a second press were committed, and the pressed event
\* is raised
C11_Witness ==
  /\ \E i, j, k \in CommitPolls(btnLog) :
        /\ i < j /\ j < k
        /\ btnLog[i].raw = 0 /\ btnLog[j].raw = 1 /\ btnLog[k].raw = 0
  /\ btn.pressed_event
  /\ btn.stable = 0

\* C12: a query returns true exactly when update() committed an edge of its
\* kind since the last query of that kind, and it clears the edge: the first
\* query after an edge returns true, every later one false until the next edge.
C12_QueriesAreOneShot ==
  [][ /\ (btnRet'.q = "was_pressed" /\ btnLog' = btnLog) =>
            btnRet'.r = btnPending.pressed /\ ~btn'.pressed_event
      /\ (btnRet'.q = "was_released" /\ btnLog' = btnLog) =>
            btnRet'.r = btnPending.released /\ ~btn'.released_event
      /\ (btnRet'.q = "was_long_pressed" /\ btnLog' = btnLog) =>
            btnRet'.r = btnPending.long /\ ~btn'.long_press_event ]_vars

\* was_released was queried after a committed release and returned true while
\* a press and a long press are still to be queried
C12_Witness ==
  /\ btnRet = [q |-> "was_released", r |-> TRUE]
  /\ btn.pressed_event /\ btn.long_press_event
  /\ ~btn.released_event

\* the j-th frame of 10 segments of a pulse sequence
Frame(segs, j) == SubSeq(segs, 10 * (j - 1) + 1, 10 * j)

\* the value a receiver reads from the 8 data segments of a frame
RECURSIVE FrameValue(_, _)
FrameValue(f, i) ==
  IF i > 7 THEN 0
  ELSE (IF f[i + 2].level THEN 2 ^ i ELSE 0) + FrameValue(f, i + 1)

\* a frame of 10 bit-times with a low start bit and a high stop bit
FrameOk(f) ==
  /\ Len(f) = 10
  /\ \A i \in 1..10 : f[i].duration = 32
  /\ ~f[1].level
  /\ f[10].level

\* the pulse sequence is the frames of the bytes of data, in byte order
Carries(segs, data) ==
  /\ Len(segs) = 10 * Len(data)
  /\ \A j \in 1..Len(data) :
        FrameOk(Frame(segs, j)) /\ FrameValue(Frame(segs, j), 0) = data[j]

\* a step in which a call on a MIDI output was made
MidiCallStep == Len(midi'.rmt.inflight) >= Len(midi.rmt.inflight)

\* C13: a message is submitted only when the peripheral is idle, so no two
\* sequences are ever in flight; a non-empty message is submitted as one
\* sequence of 10 segments per byte in byte order, an empty one not at all;
\* and what is in flight is always the rest of the one sequence submitted last.
C13_OneSequenceInFlight ==
  [][ /\ ~midi'.rmt.overlap
      /\ MidiCallStep =>
           /\ (midi'.m3 = <<>>) => midi'.rmt = midi.rmt
           /\ (midi'.m3 # <<>>) =>
                /\ midi.rmt.inflight = <<>>
                /\ Len(midi'.m3) = 1
                /\ midi'.m3[1] # <<>>
                /\ Carries(midi'.rmt.inflight, midi'.m3[1])
                /\ midi'.rmt.submitted = midi'.rmt.inflight
      /\ \E k \in 0..Len(midi'.rmt.submitted) :
           midi'.rmt.inflight =
             SubSeq(midi'.rmt.submitted, k + 1, Len(midi'.rmt.submitted)) ]_vars

\* a second message was submitted after the first one was sent completely, and
\* the peripheral is in the middle of its second byte
C13_Witness ==
  /\ midiOp.name = "tx_note_off"
  /\ Len(midi.rmt.inflight) = 15
  /\ Len(midi.rmt.submitted) = 30
  /\ ~midi.rmt.overlap

\* C14: a byte b is encoded as 10 segments of 32 ticks: a low start bit, 8
\* data segments that read as b with segment i weighing 2^i, and a high stop
\* bit; for 0x90 the data levels are 0,0,0,0,1,0,0,1.
C14_ByteEncoding ==
  [][ (midiOp'.name = "write" /\ MidiCallStep /\ midi'.m3 # <<>>) =>
        /\ \A j \in 1..Len(midi'.m3[1]) :
              /\ midi'.m3[1][j] \in 0..255
              /\ FrameOk(Frame(midi'.rmt.submitted, j))
              /\ FrameValue(Frame(midi'.rmt.submitted, j), 0) = midi'.m3[1][j]
        /\ Len(midi'.rmt.submitted) = 10 * Len(midi'.m3[1])
        /\ (midi'.m3[1] = <<144>>) =>
              [i \in 1..8 |-> midi'.rmt.submitted[i + 1].level] =
                <<FALSE, FALSE, FALSE, FALSE, TRUE, FALSE, FALSE, TRUE>> ]_vars

\* the byte 0x90 was written and its 10 segments are in flight
C14_Witness ==
  /\ midiOp.name = "write"
  /\ midi.m3 = << <<144>> >>
  /\ Len(midi.rmt.inflight) = 10
  /\ midi.rmt.inflight[6].level /\ midi.rmt.inflight[9].level
  /\ ~midi.rmt.inflight[2].level

\* the three bytes of a message with status code, channel and two data values
IsMessage(msg, code, channel, d1, d2) ==
  /\ Len(msg) = 3
  /\ msg[1] \div 16 = code \div 16
  /\ (channel - (msg[1] % 16)) % 16 = 0
  /\ msg[1] >= 128
  /\ msg[2] \in 0..127 /\ (d1 - msg[2]) % 128 = 0
  /\ msg[3] \in 0..127 /\ (d2 - msg[3]) % 128 = 0

\* C16: the software transmitter sends Note On as (0x90 | channel&0x0F,
\* note&0x7F, velocity&0x7F), Note Off with 0x80 and Control Change with 0xB0;
\* the status byte has its top bit set and the data bytes have it clear.
C16_WireFormat ==
  /\ (midiOp.name = "tx_note_on") =>
       /\ Len(midi.m3) = 1
       /\ IsMessage(midi.m3[1], 144, midiOp.channel, midiOp.d1, midiOp.d2)
  /\ (midiOp.name = "tx_note_off") =>
       /\ Len(midi.m3) = 1
       /\ IsMessage(midi.m3[1], 128, midiOp.channel, midiOp.d1, midiOp.d2)
  /\ (midiOp.name = "tx_control_change") =>
       /\ Len(midi.m3) = 1
       /\ IsMessage(midi.m3[1], 176, midiOp.channel, midiOp.d1, midiOp.d2)

\* Control Change on channel 17 with controller -1 and value 228 was sent as
\* 0xB1 0x7F 0x64
C16_Witness ==
  /\ midiOp = [name |-> "tx_control_change", channel |-> 17, d1 |-> -1, d2 |-> 228]
  /\ midi.m3 = << <<177, 127, 100>> >>

\* the calls of the triple output
TripleOps == {"triple_note_on", "triple_note_off", "triple_control_change"}

\* C15: after every call of the triple output the three outputs have received
\* the same messages: same count, same order, same content.
C15_ThreeOutputsAgree ==
  (midiOp.name \in TripleOps) => (midi.m1 = midi.m2 /\ midi.m2 = midi.m3)

\* C17: the note-on and note-off of a note outside 0..127 send nothing on any
\* output and leave the peripheral alone, and those of a note inside send one
\* message with that note on every output of the called HAL.
C17_NoteRangeFilter ==
  [][ MidiCallStep =>
        /\ (midiOp'.name \in {"triple_note_on", "triple_note_off"}) =>
             IF midiOp'.d1 \in 0..127
             THEN /\ Len(midi'.m1) = 1 /\ midi'.m1[1][2] = midiOp'.d1
                  /\ Len(midi'.m2) = 1 /\ midi'.m2[1][2] = midiOp'.d1
                  /\ Len(midi'.m3) = 1 /\ midi'.m3[1][2] = midiOp'.d1
                  /\ Carries(midi'.rmt.inflight, midi'.m3[1])
             ELSE /\ midi'.m1 = <<>> /\ midi'.m2 = <<>> /\ midi'.m3 = <<>>
                  /\ midi'.rmt = midi.rmt
        /\ (midiOp'.name \in {"mcu_note_on", "mcu_note_off"}) =>
             IF midiOp'.d1 \in 0..127
             THEN Len(midi'.m) = 1 /\ midi'.m[1][2] = midiOp'.d1
             ELSE midi'.m = <<>> ]_vars

\* the note-off of note 128 was called on the triple output while an earlier
\* message was still being sent, and nothing was sent for it
C17_Witness ==
  /\ midiOp.name = "triple_note_off" /\ midiOp.d1 = 128
  /\ midi.m1 = <<>> /\ midi.m2 = <<>> /\ midi.m3 = <<>>
  /\ midi.rmt.inflight # <<>>

(***************************************************************************)
(* The encoder and the mode                                                *)
(***************************************************************************)
\* C18: update_encoder(delta), in every mode and for every delta, emits
\* exactly one EncoderChanged event, which carries that delta and, as its
\* value, the sum of all deltas passed to update_encoder since construction.
C18_OneEncoderChanged ==
  [][lastOp'.name = "update_encoder" =>
       /\ Len(EventsOf(events', "encoder_changed")) = 1
       /\ EventsOf(events', "encoder_changed")[1].data.delta = lastOp'.arg
       /\ EventsOf(events', "encoder_changed")[1].data.value = encSum'
       /\ events'[1].type = "encoder_changed"]_vars

\* the third update_encoder call, in ScaleSelect mode, after deltas that
\* sum to something else than the last delta
C18_Witness ==
  /\ lastOp.name = "update_encoder" /\ lastOp.arg = -1
  /\ nchanges = MaxTurns
  /\ ui.mode = SCALE_SELECT
  /\ encSum = MaxTurn + MaxTurn - 1
  /\ events[1] = [type |-> "encoder_changed",
                  data |-> [value |-> MaxTurn + MaxTurn - 1, delta |-> -1]]

\* octave + delta, clamped to [Octave.MIN, Octave.MAX]
ClampedOctave(octave, delta) ==
  IF octave + delta < OctaveMIN THEN OctaveMIN
  ELSE IF octave + delta > OctaveMAX THEN OctaveMAX
  ELSE octave + delta

\* the display was refreshed with the engine's and the mode's new values
RefreshedWith(cs, e, mode) ==
  /\ \E i \in 1..Len(cs) : cs[i] = [op |-> "show_scale", scale_name |-> e.scale_name,
                                     octave |-> e.octave]
  /\ \E i \in 1..Len(cs) : cs[i] = [op |-> "show_mode", mode |-> mode]

\* the RootChanged event of the engine e
RootChangedOf(e) ==
  [type |-> "root_changed",
   data |-> [root_note |-> e.octave * NOTES_PER_OCTAVE + e.root_note_class,
             root_note_class |-> e.root_note_class, octave |-> e.octave]]

ModeAfter(m) ==
  CASE m = PLAY -> ROOT_SELECT
    [] m = ROOT_SELECT -> SCALE_SELECT
    [] m = SCALE_SELECT -> PLAY

\* the state two more toggle_mode calls lead to from the state s
TwoMoreToggles(s) == toggle_mode(toggle_mode(s))

\* C20: toggle_mode() advances the mode cyclically Play -> RootSelect ->
\* ScaleSelect -> Play, one step per call, so that three calls return to the
\* starting mode; each call emits one ModeChanged event that carries the new
\* mode, and sets the dirty flag: it is set when the event is delivered and
\* stays set unless a subscriber refreshed the display.
C20_ToggleModeCycles ==
  [][lastOp'.name = "toggle_mode" =>
       /\ ui'.mode = ModeAfter(ui.mode)
       /\ events' = << [type |-> "mode_changed", data |-> [mode |-> ui'.mode]] >>
       /\ evDirty' = << TRUE >>
       /\ ui'.display_dirty \/ RefreshedWith(calls', engine', ui'.mode)
       /\ engine' = engine
       /\ TwoMoreToggles([e |-> engine', u |-> ui', a |-> app', calls |-> <<>>,
                          ev |-> <<>>, dirty |-> <<>>]).u.mode = ui.mode]_vars

\* toggle_mode() went from ScaleSelect back to Play and emitted ModeChanged
\* with Play
C20_Witness ==
  /\ lastOp.name = "toggle_mode"
  /\ ui.mode = PLAY
  /\ events = << [type |-> "mode_changed", data |-> [mode |-> PLAY]] >>
  /\ evDirty = << TRUE >>

(***************************************************************************)
(* The chord engine                                                        *)
(***************************************************************************)
\* C21: in every reachable state of the chord engine the octave lies in
\* [Octave.MIN, Octave.MAX]: no construction and no sequence of
\* change_octave / set_octave calls, with deltas of any size and sign, takes
\* it outside that range.
C21_OctaveInRange == OctaveMIN <= engine.octave /\ engine.octave <= OctaveMAX

\* C22: the root note class is in 0..11 in every reachable state;
\* cycle_root_note(delta) sets it to (class + delta) mod 12 for positive and
\* negative delta, so that cycling by +d and then by -d, or by 12 single
\* steps in one direction, restores the original class; and root_note is
\* always octave * 12 + root_note_class.
C22_RootClassCycles ==
  /\ [](engine.root_note_class \in 0..11)
  /\ [](root_note(engine) = engine.octave * 12 + engine.root_note_class)
  /\ [][lastOp'.name = "cycle_root_note" =>
          /\ engine'.root_note_class \in 0..11
          /\ \E k \in -2..2 :
               engine'.root_note_class = engine.root_note_class + lastOp'.arg + 12 * k
          /\ engine' = [engine EXCEPT !.root_note_class = engine'.root_note_class]
          /\ (engRun'.prevOp = "cycle_root_note" /\ engRun'.prevArg = 0 - lastOp'.arg) =>
               engine'.root_note_class = engRun'.before2.root_note_class
          /\ (engRun'.n = 12 /\ lastOp'.arg \in {-1, 1}) =>
               engine'.root_note_class = engRun'.start.root_note_class]_vars

\* twelve single steps down in a row, from a class that is not 0, so that the
\* run went below 0 on its way
C22_Witness ==
  /\ engRun.op = "cycle_root_note" /\ engRun.arg = -1 /\ engRun.n = 12
  /\ engRun.start.root_note_class = 7
  /\ engine.root_note_class = 7

\* the scale of the engine e: its name and its index
ScaleOf(e) == << e.scale_name, e.scale_index >>

\* C23: from any scale, next_scale called N times (N the number of scales)
\* returns to the original scale, and prev_scale followed by next_scale, as
\* well as next_scale followed by prev_scale, is the identity on the
\* engine's scale.
C23_ScaleRoundTrips ==
  [][/\ (engRun'.op = "next_scale" /\ engRun'.n = Len(ScaleNames)
           /\ IsScaleName(engRun'.start.scale_name)) =>
          engine' = engRun'.start
     /\ (engRun'.op = "next_scale" /\ engRun'.prevOp = "prev_scale"
           /\ IsScaleName(engRun'.before2.scale_name)) =>
          /\ ScaleOf(engine') = ScaleOf(engRun'.before2)
          /\ ScaleOf(engine) # ScaleOf(engine')
     /\ (engRun'.op = "prev_scale" /\ engRun'.prevOp = "next_scale"
           /\ IsScaleName(engRun'.before2.scale_name)) =>
          /\ ScaleOf(engine') = ScaleOf(engRun'.before2)
          /\ ScaleOf(engine) # ScaleOf(engine')]_vars

\* the ninth next_scale in a row, from dorian, back at dorian
C23_Witness ==
  /\ engRun.op = "next_scale" /\ engRun.n = Len(ScaleNames)
  /\ engRun.start.scale_name = "dorian"
  /\ engine.scale_name = "dorian" /\ engine.scale_index = 4

(***************************************************************************)
(* The dirty flag                                                          *)
(***************************************************************************)
\* what the display shows for the engine e and the UIState u
DisplayOf(e, u) == get_display_data([e |-> e, u |-> u])

\* C24: every UIState operation that changes what the display shows (mode,
\* scale, root, octave, active chord) sets display_dirty to true: its event
\* is delivered with the flag set; and display_dirty goes from true to false
\* only where the display-refresh step ran.
C24_DirtyDiscipline ==
  [][/\ DisplayOf(engine', ui') # DisplayOf(engine, ui) =>
          (evDirty' # <<>> /\ evDirty'[Len(evDirty')])
     /\ (ui.display_dirty /\ ~ui'.display_dirty) =>
          RefreshedWith(calls', engine', ui'.mode)]_vars

(***************************************************************************)
(* The encoders                                                            *)
(***************************************************************************)
\* C25: for any sequence of get_delta() calls interleaved with encoder
\* movement (no set_value), each call returns the current absolute value
\* minus the value at the previous call, so that the sum of all returned
\* deltas is the current absolute value minus the value at construction: no
\* movement is counted twice or dropped.
C25_DeltasAddUp ==
  [][\A ch \in Channels :
       (encRet'.op = "get_delta" /\ encRet'.ch = ch) =>
          /\ encRet'.delta = encs[ch].value - encHist.read[ch]
          /\ encHist'.sum[ch] = encs'[ch].value - ENCODER_START
          /\ encs'[ch].value = encs[ch].value]_vars

\* a get_delta() on the left encoder that returned -3, after earlier ones
\* that returned other movement, with the knob now at -1
C25_Witness ==
  /\ encRet.op = "get_delta" /\ encRet.ch = "left" /\ encRet.delta = -3
  /\ encs.left.value = -1
  /\ encHist.sum.left = -1

\* the button detector of one encoder reports a press edge for a poll at
\* time t that reads the switch pin as sw: the pin fell since the detector
\* last looked, and the last accepted press is longer ago than the debounce
\* time
PressEdge(en, sw, t) ==
  sw = 0 /\ en.last_sw_state = 1 /\ t - en.last_button_time > EncDebounce

TouchedEdges == {p \in 0..(TOUCH_PAD_COUNT - 1) : touch_was_touched(touch, p)}
ReleasedEdges == {p \in 0..(TOUCH_PAD_COUNT - 1) : touch_was_released(touch, p)}

\* C27: after each touch-strip poll the touched-edge mask and the
\* released-edge mask are disjoint and together equal the XOR of the current
\* and the previous poll's touched bitmask: was_touched(p) holds exactly
\* when pad p is touched now and was not at the previous poll,
\* was_released(p) exactly when it was touched at the previous poll and is
\* not now, and each edge is reported for exactly one poll.
C27_TouchEdges ==
  /\ PadsOf(touch.current_touched) = touchHist.cur
  /\ PadsOf(touch.just_touched) \cap PadsOf(touch.just_released) = {}
  /\ PadsOf(touch.just_touched) \cup PadsOf(touch.just_released)
       = (touchHist.cur \ touchHist.prev) \cup (touchHist.prev \ touchHist.cur)
  /\ touch.just_touched + touch.just_released
       = raw_of((touchHist.cur \ touchHist.prev) \cup (touchHist.prev \ touchHist.cur))
  /\ TouchedEdges = touchHist.cur \ touchHist.prev
  /\ ReleasedEdges = touchHist.prev \ touchHist.cur
  /\ TouchedEdges \cap touchHist.prevTouched = {}
  /\ ReleasedEdges \cap touchHist.prevReleased = {}
  /\ touchRet.op = "was_touched" =>
       touchRet.r = (touchRet.pad \in touchHist.cur \ touchHist.prev)
  /\ touchRet.op = "was_released" =>
       touchRet.r = (touchRet.pad \in touchHist.prev \ touchHist.cur)

\* on a reversed strip, electrode 0 was let go and electrode 11 touched in
\* the same poll, and was_released(11) was asked and returned true
C27_Witness ==
  /\ touch.reversed
  /\ touchHist.prev = {TOUCH_PAD_COUNT - 1} /\ touchHist.cur = {0}
  /\ touch.just_touched = 1 /\ touch.just_released = 2048
  /\ touchRet = [op |-> "was_released", pad |-> TOUCH_PAD_COUNT - 1, r |-> TRUE]

\* C28: a peripheral read failure during input polling (the touch sensor
\* read raising) does not escape the loop iteration: the control loop goes
\* on to the next tick with the input state of the previous poll kept,
\* raising no touch or release edge and stopping no sound.
C28_ReadFailureIsContained ==
  [][lastOp'.name = "update_raised" =>
       /\ phase' = "running"
       /\ touch'.current_touched = touch.current_touched
       /\ events' = <<>>
       /\ NotesOf(calls', "note_off") = <<>>]_vars

\* the engine with the "major" scale in place of its scale name
WithMajor(e) == [e EXCEPT !.scale_name = "major"]

\* C29: an unrecognized scale name given to the chord engine (at construction
\* or through the scale_name setter) or to the music-theory lookups never
\* raises: chord and scale-note computation goes on with the "major" scale
\* as default.
C29_UnknownScaleFallsBack ==
  /\ engRet.raised = "none"
  /\ (lastOp.name = "get_chord" /\ ~IsScaleName(engine.scale_name)) =>
        engRet.chord = get_chord(WithMajor(engine), lastOp.arg)
  /\ (lastOp.name = "get_scale_note" /\ ~IsScaleName(engine.scale_name)) =>
        engRet.note = get_scale_note(WithMajor(engine), lastOp.arg)
  /\ (lastOp.name = "get_scale_degrees" /\ ~IsScaleName(lastOp.arg)) =>
        engRet.list = SCALES("major")

\* C30: get_chord(degree) and UIState.trigger_chord(degree) never fail for
\* any integer degree: a degree outside 0..6 is treated as degree mod 7 and
\* yields the same chord as that wrapped degree.
C30_AnyDegreeWraps ==
  /\ lastOp.name = "get_chord" =>
        /\ engRet.raised = "none"
        /\ engRet.chord = get_chord(engine, lastOp.arg % SCALE_DEGREES)
  /\ lastOp.name = "trigger_chord" =>
        /\ engRet.raised = "none"
        /\ Len(events) = 1
        /\ events[1].type = "chord_triggered"
        /\ events[1].data.notes = get_chord(engine, lastOp.arg % SCALE_DEGREES).notes

\* the qualities the tests expect for degrees 0..6
MajorQualities ==
  <<"major", "minor", "minor", "major", "major", "minor", "diminished">>

MinorQualities ==
  <<"minor", "diminished", "major", "minor", "minor", "major", "major">>

\* the engine is ChordEngine(root_note=60, scale_name="major")
IsCMajor == root_note(engine) = DEFAULT_ROOT_NOTE /\ engine.scale_name = "major"

\* C31: for root 60 and the major scale, get_chord returns ([60,64,67], "C",
\* "I") for degree 0, ([62,65,69], "Dm", "ii") for degree 1 and ([71,74,77],
\* "Bdim", "vii°") for degree 6; the chord qualities of degrees 0..6 are
\* major, minor, minor, major, major, minor, diminished in the major scale
\* and minor, diminished, major, minor, minor, major, major in the natural
\* minor scale.
C31_CMajorChords ==
  /\ (lastOp.name = "get_chord" /\ IsCMajor /\ lastOp.arg = 0) =>
        engRet = [NoReturn EXCEPT !.chord =
                    [notes |-> <<60, 64, 67>>, name |-> "C", numeral |-> "I"]]
  /\ (lastOp.name = "get_chord" /\ IsCMajor /\ lastOp.arg = 1) =>
        engRet = [NoReturn EXCEPT !.chord =
                    [notes |-> <<62, 65, 69>>, name |-> "Dm", numeral |-> "ii"]]
  /\ (lastOp.name = "get_chord" /\ IsCMajor /\ lastOp.arg = 6) =>
        engRet = [NoReturn EXCEPT !.chord =
                    [notes |-> <<71, 74, 77>>, name |-> "Bdim", numeral |-> "vii°"]]
  /\ (lastOp.name = "get_chord_quality_in_scale" /\ lastOp.arg.name = "major") =>
        engRet = [NoReturn EXCEPT !.quality = MajorQualities[lastOp.arg.degree + 1]]
  /\ (lastOp.name = "get_chord_quality_in_scale" /\ lastOp.arg.name = "natural_minor") =>
        engRet = [NoReturn EXCEPT !.quality = MinorQualities[lastOp.arg.degree + 1]]

C31_Witness ==
  /\ lastOp.name = "get_chord" /\ IsCMajor /\ lastOp.arg = 6
  /\ engRet.chord.numeral = "vii°"

\* root_note + scale[pad mod 7] + 12 * floor(pad / 7) in the scale of e
PadNote(e, pad) ==
  root_note(e) + SCALES(e.scale_name)[(pad % 7) + 1] + (12 * (pad \div 7))

RECURSIVE SubscribedTo(_, _)
SubscribedTo(order, event_type) ==
  IF order = <<>> THEN <<>>
  ELSE (IF Head(order).type = event_type THEN <<Head(order).callback>> ELSE <<>>)
         \o SubscribedTo(Tail(order), event_type)

\* C33: emit(event, data) synchronously calls every callback subscribed to
\* that event type, once per subscription and in registration order, before
\* emit returns; callbacks of other event types are not called, and an event
\* emitted while it has no subscriber is not queued or replayed to a callback
\* subscribed later.
C33_EmitCallsSubscribers ==
  /\ bus.op.name = "emit" =>
        /\ Len(bus.log) = Len(SubscribedTo(bus.order, bus.op.type))
        /\ \A i \in 1..Len(bus.log) :
              /\ bus.log[i].callback = SubscribedTo(bus.order, bus.op.type)[i]
              /\ bus.log[i].data = bus.op.data
  /\ bus.op.name \in {"init", "subscribe", "unsubscribe"} => bus.log = <<>>

\* the third emit reached "g" then "f" of its type, with its own data, and
\* not the callback subscribed to the other type
C33_Witness ==
  /\ bus.op.name = "emit" /\ bus.op.type = "scale_changed" /\ bus.op.data = 3
  /\ bus.log = << [callback |-> "g", data |-> 3], [callback |-> "f", data |-> 3] >>
  /\ SubscribedTo(bus.order, "chord_triggered") # <<>>

\* C34: the encoder push-button detector reports a press only on a poll
\* where the switch level is low and was high at the previous poll, and only
\* if more than debounce_ms have passed since the last reported press; a
\* button that stays held is reported at most once.
C34_PressEdgeDebounced ==
  /\ [](\A ch \in Channels : encHist.run[ch] <= 1)
  /\ [][\A ch \in Channels :
          (encRet'.op = "was_button_pressed" /\ encRet'.ch = ch /\ encRet'.pressed) =>
             /\ SwOf(encRet', ch) = 0
             /\ encHist.sw[ch] = 1
             /\ encHist.press[ch] # None => encs'.now - encHist.press[ch] > EncDebounce
             /\ encHist.run[ch] = 0]_vars

\* a press was reported, the switch went up and came down again within the
\* debounce time, which was not reported, and the button is still held one
\* poll later, again without a report
C34_Witness ==
  /\ encRet.op = "was_button_pressed" /\ encRet.ch = "right" /\ ~encRet.pressed
  /\ encRet.swr = 0 /\ encHist.sw.right = 0 /\ encHist.run.right = 0
  /\ encHist.press.right = MaxEncTime - 3
  /\ encs.now = MaxEncTime

\* C39: when both physical encoder push-buttons go down between two polls,
\* the dual-encoder combiner reports exactly one logical button press for
\* them (one mode toggle), not a press on each of two consecutive polls.
C39_BothButtonsOnePress ==
  [][/\ (encRet'.op = "dual_was_button_pressed" /\ encHist'.fell = Channels
           /\ encs'.now - encs.left.last_button_time > EncDebounce) =>
          encRet'.pressed
     /\ (encRet'.op = "dual_was_button_pressed" /\ encHist.fell = Channels
           /\ encRet.pressed /\ encRet'.swl = 0 /\ encRet'.swr = 0) =>
          ~encRet'.pressed]_vars

\* the third and the fifth above a degree of a scale, in semitones, with the
\* intervals of the degrees that wrap taken an octave up
ThirdOf(scale, d) ==
  ((scale[((d + 2) % 7) + 1] + (IF d + 2 >= 7 THEN 12 ELSE 0)) - scale[d + 1])

FifthOf(scale, d) ==
  ((scale[((d + 4) % 7) + 1] + (IF d + 4 >= 7 THEN 12 ELSE 0)) - scale[d + 1])

\* the interval sizes of the four chord types
TriadSizes == {<<4, 7>>, <<3, 7>>, <<3, 6>>, <<4, 8>>}

\* C36: for every defined scale, every root and every degree 0..6,
\* get_chord returns exactly 3 notes in non-decreasing order and they are
\* the stacked thirds of the scale, i.e. [get_scale_note(d),
\* get_scale_note(d+2), get_scale_note(d+4)]: the chord-quality fallback
\* branch is never taken for any scale in the table, and every chord tone
\* belongs to the scale.
C36_ChordsAreStackedThirds ==
  lastOp.name = "get_chord" =>
    /\ engRet.raised = "none"
    /\ Len(engRet.chord.notes) = 3
    /\ engRet.chord.notes[1] <= engRet.chord.notes[2]
    /\ engRet.chord.notes[2] <= engRet.chord.notes[3]
    /\ engRet.chord.notes = << get_scale_note(engine, lastOp.arg),
                               get_scale_note(engine, lastOp.arg + 2),
                               get_scale_note(engine, lastOp.arg + 4) >>
    /\ << ThirdOf(SCALES(engine.scale_name), lastOp.arg),
          FifthOf(SCALES(engine.scale_name), lastOp.arg) >> \in TriadSizes
    /\ \A i \in 1..3 :
          \E j \in 1..7 :
             (engRet.chord.notes[i] - root_note(engine)) % 12
               = SCALES(engine.scale_name)[j]

\* the augmented chord on the third degree of a harmonic minor scale
C36_Witness ==
  /\ lastOp.name = "get_chord"
  /\ engine.scale_name = "harmonic_minor"
  /\ lastOp.arg = 2
  /\ engRet.chord.notes[3] - engRet.chord.notes[1] = 8

\* C37: in every reachable state, after any sequence of set_scale,
\* update_encoder and scale setter calls with any index,
\* UIState.current_scale_index equals chord_engine.scale_index, that index is
\* within 0..N-1, and chord_engine.scale_name is the name at that index of
\* the scale list.
C37_ScaleIndexAgrees ==
  /\ ui.current_scale_index = engine.scale_index
  /\ ui.current_scale_index \in 0..(Len(ScaleNames) - 1)
  /\ engine.scale_index \in 0..(Len(ScaleNames) - 1)
  /\ engine.scale_name = ScaleNames[engine.scale_index + 1]

(***************************************************************************)
(* C38: after every ChordTriggered or ChordReleased handler of the output  *)
(* coordinator completes, _current_chord_degree is None exactly when no    *)
(* chord notes are recorded, and otherwise is a degree that has recorded   *)
(* notes.                                                                  *)
(***************************************************************************)
\* three chord buttons, pressed and released in any order, with the
\* chord-hold toggle and the encoder
HighlightDegrees == {0, 3, NUM_CHORD_BUTTONS - 1}

NextHighlight ==
  \/ \E d \in HighlightDegrees : TriggerChord(d)
  \/ \E d \in HighlightDegrees : ReleaseChord(d)
  \/ \E delta \in Deltas : UpdateEncoder(delta)
  \/ ToggleChordHold

SpecHighlight == Init /\ [][NextHighlight]_vars

\* the latest operation ran a chord handler
ChordHandlerRan ==
  \E i \in 1..Len(events) : events[i].type \in {"chord_triggered", "chord_released"}

C38_HighlightDegreeIsRecorded ==
  ChordHandlerRan =>
    /\ (app.current_chord_degree = None) <=> (app.active_notes_by_degree = <<>>)
    /\ app.current_chord_degree # None =>
         DictHas(app.active_notes_by_degree, app.current_chord_degree)

\* the chord that held the highlight was released while two others stay
\* recorded, and the highlight moved to the first of them
C38_Witness ==
  /\ lastOp.name = "release_chord"
  /\ \E i \in 1..Len(events) :
       events[i].type = "chord_released" /\ events[i].data.degree = lastOp.arg
  /\ Len(app.active_notes_by_degree) = 2
  /\ app.current_chord_degree = app.active_notes_by_degree[1].k
  /\ lastOp.arg > app.active_notes_by_degree[2].k

(***************************************************************************)
(* The special button: chords and pads held, the encoder turned in every   *)
(* mode, and the special button's branch of update()                       *)
(***************************************************************************)
\* the answers (was_long_pressed, was_pressed) one update() can get: one
\* Button.update() raises the pressed event or the long-press event, never
\* both (button.py: the long press fires long_press_ms after the press)
SpecialAnswers ==
  { [long |-> TRUE, pressed |-> FALSE],
    [long |-> FALSE, pressed |-> TRUE],
    [long |-> FALSE, pressed |-> FALSE] }

SpecialButton(ans) ==
  /\ phase = "running"
  /\ Commit(special_button(Cur, ans.long, ans.pressed), "special_button", ans)
  /\ UNCHANGED <<phase, nchanges>>

\* roots and scales the encoder can have selected before: the lowest and the
\* highest root of the octave range, the default root and its neighbours
ResetRoots ==
  { OctaveMIN * NOTES_PER_OCTAVE, DEFAULT_ROOT_NOTE - 1, DEFAULT_ROOT_NOTE,
    DEFAULT_ROOT_NOTE + 1, OctaveMAX * NOTES_PER_OCTAVE + NOTES_PER_OCTAVE - 1 }
ResetScales == {DEFAULT_SCALE, "locrian"}

InitReset ==
  /\ \E r \in ResetRoots, name \in ResetScales :
        InitFrom([AppInit EXCEPT !.e = EngineInit(r, name),
                                 !.u.current_scale_index = EngineInit(r, name).scale_index])
  /\ InitHal

NextReset ==
  \/ TriggerChord(0)
  \/ TriggerNote(0)
  \/ \E delta \in Deltas : UpdateEncoder(delta)
  \/ ToggleMode
  \/ \E ans \in SpecialAnswers : SpecialButton(ans)

SpecReset == InitReset /\ [][NextReset]_vars

(***************************************************************************)
(* C40: a long press of the special button (index 7) handled by update()   *)
(* sets the engine to root note 60 (octave 5, root class C) and the major  *)
(* scale from any prior state and emits ScaleChanged, and leaves the mode  *)
(* and the recorded sounding notes of chords and pads unchanged.           *)
(***************************************************************************)
C40_LongPressResets ==
  [][lastOp'.name = "special_button" /\ lastOp'.arg.long =>
       /\ root_note(engine') = DEFAULT_ROOT_NOTE
       /\ engine'.octave = 5
       /\ engine'.root_note_class = 0
       /\ engine'.scale_name = "major"
       /\ \E i \in 1..Len(events') : events'[i].type = "scale_changed"
       /\ ui'.mode = ui.mode
       /\ app'.active_notes_by_degree = app.active_notes_by_degree
       /\ app'.active_notes_by_pad = app.active_notes_by_pad]_vars

\* the reset happened outside play mode while a chord and a pad note recorded
\* under another root are held
C40_Witness ==
  /\ lastOp.name = "special_button" /\ lastOp.arg.long
  /\ ui.mode # PLAY
  /\ root_note(engine) = DEFAULT_ROOT_NOTE
  /\ \E i \in 1..Len(app.active_notes_by_degree) :
       /\ app.active_notes_by_degree[i].k = 0
       /\ app.active_notes_by_degree[i].v[1] # DEFAULT_ROOT_NOTE
  /\ app.active_notes_by_pad # <<>>

(***************************************************************************)
(* The loop of main(): update() ticks in which every chord button and      *)
(* every pad gets press and release edges in turn, then cleanup()          *)
(***************************************************************************)
LoopButtons == {0}
LoopPads == {0}

\* how often each note number occurs in a sequence of notes
NoteCounts(q) == [n \in {q[i] : i \in 1..Len(q)} |-> Count(q, n)]

CountOf(f, n) == IF n \in DOMAIN f THEN f[n] ELSE 0

AddCounts(f, g) == [n \in DOMAIN f \cup DOMAIN g |-> CountOf(f, n) + CountOf(g, n)]

\* the note-ons and note-offs of the calls cs, added to the history
LoopSent(l, cs) ==
  [l EXCEPT !.on = AddCounts(@, NoteCounts(NotesOf(cs, "note_on"))),
            !.off = AddCounts(@, NoteCounts(NotesOf(cs, "note_off")))]

\* the answers one update() can get: a button that is up can only get a
\* press edge and one that is down only a release edge (button.py commits
\* one level change per update()), and likewise a pad
EncoderAnswers ==
  {[delta |-> delta, sw |-> FALSE] : delta \in Deltas} \cup {[delta |-> 0, sw |-> TRUE]}

TickInputs ==
  { [delta |-> enc.delta, sw |-> enc.sw, pressed |-> pressed, released |-> released,
     long |-> long, special |-> FALSE,
     touched |-> touched, untouched |-> untouched] :
      enc \in EncoderAnswers, long \in BOOLEAN,
      pressed \in SUBSET (LoopButtons \ loop.buttons),
      released \in SUBSET loop.buttons,
      touched \in SUBSET (LoopPads \ loop.pads),
      untouched \in SUBSET loop.pads }

LoopRest == UNCHANGED <<nchanges, btnVars, midiVars, engRet, engRun, encVars, touchVars, bus>>

UpdateTick(inp) ==
  /\ phase = "running"
  /\ loop.ticks < MaxTicks
  /\ \E s \in {update(Cur, inp)} :
       /\ CommitApp(s, "update", inp)
       /\ loop' = [LoopSent(loop, s.calls) EXCEPT
                     !.buttons = (@ \cup inp.pressed) \ inp.released,
                     !.pads = (@ \cup inp.touched) \ inp.untouched,
                     !.ticks = @ + 1]
  /\ UNCHANGED phase
  /\ LoopRest

\* the finally clause of main(): cleanup() ends the program
CleanupLoop ==
  /\ phase = "running"
  /\ \E s \in {cleanup(Cur)} :
       /\ CommitApp(s, "cleanup", None)
       /\ loop' = LoopSent(loop, s.calls)
  /\ phase' = "stopped"
  /\ LoopRest

\* the application in any of the modes the encoder button selects
InitLoop ==
  /\ \E m \in 1..Len(ModeALL) : InitFrom([AppInit EXCEPT !.u.mode = ModeALL[m]])
  /\ InitHal

NextLoop ==
  \/ \E inp \in TickInputs : UpdateTick(inp)
  \/ CleanupLoop

SpecLoop == InitLoop /\ [][NextLoop]_vars

(***************************************************************************)
(* C35: in ChordMachineApp driven by update() ticks in which the press and *)
(* release edges of every chord button and of every touch pad alternate    *)
(* starting with a press, followed by one cleanup(): for every MIDI note   *)
(* number the count of note-offs sent equals the count of note-ons sent,   *)
(* whatever root, octave, scale or mode changes happen while notes are     *)
(* held, so no note is left sounding.                                      *)
(***************************************************************************)
C35_NoNoteLeftSounding ==
  phase = "stopped" =>
    \A n \in DOMAIN loop.on \cup DOMAIN loop.off :
       CountOf(loop.off, n) = CountOf(loop.on, n)

\* after cleanup(): the default root note was sent twice as note-on (by a
\* chord and by a pad), the root changed afterwards, and cleanup() itself
\* sent a note-off for it
C35_Witness ==
  /\ phase = "stopped"
  /\ CountOf(loop.on, DEFAULT_ROOT_NOTE) >= 2
  /\ root_note(engine) # DEFAULT_ROOT_NOTE
  /\ Count(NotesOf(calls, "note_off"), DEFAULT_ROOT_NOTE) >= 1

====
